---- MODULE Spec2Model ----
(***************************************************************************)
(* Record management system: ClientManager, AirlineManager, FlightManager  *)
(* over line-delimited JSON backing files.                                 *)
(*                                                                         *)
(* Python values are modelled as follows.                                   *)
(*   - a dict is a function from key strings to values; a missing key is    *)
(*     a key outside DOMAIN;                                                *)
(*   - text fields are strings, "" being the empty (falsy) string;          *)
(*   - a value in an ID position is a tagged value [kind, n]: an int        *)
(*     (kind "int"), None (kind "none") or a non-empty str (kind "str"),    *)
(*     so that Python's == across types is plain record equality;           *)
(*   - a datetime is [day, hour]; its ISO text is produced by IsoFormat     *)
(*     and parsed by FromIsoFormat;                                         *)
(*   - a backing file is [exists, lines]; a line is a JSON object (a dict)  *)
(*     or one of the raw lines blank / badjson / nonobject.                 *)
(***************************************************************************)
EXTENDS Integers, Sequences, FiniteSets, TLC

\* Bounds of the model.
MaxRecs == 2      \* add is explored while a list holds fewer records
MaxNextId == 3    \* add is explored while the next-ID counter is at most this

VARIABLES
    clients,      \* ClientManager._clients
    cNext,        \* ClientManager._next_id
    cFile,        \* content of clients_file_path
    airlines,     \* AirlineManager._airlines
    aNext,        \* AirlineManager._next_id
    aFile,        \* content of airlines_file_path
    flights,      \* FlightManager._flights
    fFile,        \* content of flights_file_path
    session,      \* the manager the caller works on in this run
    issued,       \* per manager instance: last ID returned by a successful add (0: none)
    deleted,      \* per manager instance: integer IDs of the records deleted so far
    started,      \* per manager instance: whether it was constructed with an empty list
    added         \* per manager instance constructed empty: successful adds so far

vars == <<clients, cNext, cFile, airlines, aNext, aFile, flights, fFile,
          session, issued, deleted, started, added>>

----------------------------------------------------------------------------
\* Python values

IntV(i) == [kind |-> "int", n |-> i]
NoneV == [kind |-> "none", n |-> 0]
StrV(i) == [kind |-> "str", n |-> i]

\* isinstance(v, int)
IsInt(v) == v.kind = "int"

\* bool(v) for a value in an ID position
Truthy(v) == \/ v.kind = "int" /\ v.n # 0
             \/ v.kind = "str"

Has(d, k) == k \in DOMAIN d
Get(d, k, default) == IF k \in DOMAIN d THEN d[k] ELSE default
Put(d, k, v) == (k :> v) @@ d


\* Faulty variants, used to show that the rollback properties below depend
\* on the rollback: a pop() that removes nothing, an insert at the end
\* instead of at position i
PopSkipped(s) == s
InsertAtEnd(s, i, x) == Append(s, x)

\* list.pop() / list.pop(i) / list.insert(i, x), with 1-based positions
Pop(s) == SubSeq(s, 1, Len(s) - 1)
PopAt(s, i) == SubSeq(s, 1, i - 1) \o SubSeq(s, i + 1, Len(s))
InsertAt(s, i, x) == SubSeq(s, 1, i - 1) \o <<x>> \o SubSeq(s, i, Len(s))

\* The manager's list after the caller changed a list object it was handed
\* (append, remove) to hold edited: the manager's list changes with it only
\* when the two are one object
AfterCallerEdit(list, got, edited) == IF got.own THEN edited ELSE list

\* Faulty variant: the slot keeps the updated record
RestoreSkipped(list, i, rec) == list

\* list[i] = rec, the assignment that puts the rebuilt original back after
\* a failed save of an update
Restore(list, i, rec) == [list EXCEPT ![i] = rec]

----------------------------------------------------------------------------
\* Backing files

BlankLine == [raw |-> "blank"]
BadJsonLine == [raw |-> "badjson"]
NonObjectLine == [raw |-> "nonobject"]

\* What json.loads makes of a stripped line
LineKind(line) == IF "raw" \in DOMAIN line THEN line.raw ELSE "object"

AbsentFile == [exists |-> FALSE, lines |-> <<>>]
FileOf(lines) == [exists |-> TRUE, lines |-> lines]

\* How a whole-file rewrite of n lines can end: it completes; makedirs or
\* open() raises before the file is touched; or a write raises after open()
\* truncated the file and k complete lines reached it, the buffered start
\* of line k+1 being flushed when the file is closed.
WriteOutcomes(n) ==
    {[kind |-> "ok", k |-> 0], [kind |-> "fail_open", k |-> 0]}
        \cup {[kind |-> "fail_write", k |-> j] : j \in 0..(n - 1)}

OkOutcome == [kind |-> "ok", k |-> 0]

\* Faulty variant: the file is opened for appending
WriteFileAppended(file, lines, out) ==
    IF out.kind = "ok" THEN FileOf(file.lines \o lines) ELSE file

\* open(path, 'w') followed by one json.dump + '\n' per record
WriteFile(file, lines, out) ==
    CASE out.kind = "ok" -> FileOf(lines)
      [] out.kind = "fail_open" -> file
      [] OTHER -> FileOf(SubSeq(lines, 1, out.k) \o <<BadJsonLine>>)

----------------------------------------------------------------------------
\* ClientRecord

ClientRequired ==
    {"name", "address_line_1", "city", "state", "zip_code", "country", "phone_number"}

\* Faulty variant: empty values pass
ClientValidLax(d) == ClientRequired \subseteq DOMAIN d

\* from_dict's required-field loop and __init__'s checks raise nothing
ClientValid(d) ==
    /\ ClientRequired \subseteq DOMAIN d
    /\ d["name"] # ""
    /\ d["address_line_1"] # ""

ClientFromDict(d) ==
    [client_id |-> Get(d, "client_id", NoneV),
     record_type |-> "Client",
     name |-> d["name"],
     address_line_1 |-> d["address_line_1"],
     address_line_2 |-> Get(d, "address_line_2", ""),
     address_line_3 |-> Get(d, "address_line_3", ""),
     city |-> d["city"],
     state |-> d["state"],
     zip_code |-> d["zip_code"],
     country |-> d["country"],
     phone_number |-> d["phone_number"]]

ClientToDict(c) ==
    [client_id |-> c.client_id,
     record_type |-> c.record_type,
     name |-> c.name,
     address_line_1 |-> c.address_line_1,
     address_line_2 |-> c.address_line_2,
     address_line_3 |-> c.address_line_3,
     city |-> c.city,
     state |-> c.state,
     zip_code |-> c.zip_code,
     country |-> c.country,
     phone_number |-> c.phone_number]

----------------------------------------------------------------------------
\* ClientManager

RECURSIVE LoadClientLines(_, _, _, _)
\* The loop of _load_clients from line i on: recs is _clients so far.
LoadClientLines(lines, i, recs, highest) ==
    IF i > Len(lines) THEN [recs |-> recs, highest |-> highest]
    ELSE LET line == lines[i]
             kind == LineKind(line)
         IN CASE kind = "blank" -> LoadClientLines(lines, i + 1, recs, highest)
              [] kind = "badjson" -> LoadClientLines(lines, i + 1, recs, highest)
              \* data.get raises AttributeError: the outer handler ends the loop
              [] kind = "nonobject" -> [recs |-> recs, highest |-> highest]
              [] OTHER ->
                   IF Get(line, "record_type", "") = "Client" /\ ClientValid(line)
                   THEN LET c == ClientFromDict(line)
                            id == c.client_id
                        IN IF id.kind = "int" /\ Truthy(id) /\ id.n > highest
                           THEN LoadClientLines(lines, i + 1, Append(recs, c), id.n)
                           ELSE LoadClientLines(lines, i + 1, Append(recs, c), highest)
                   ELSE LoadClientLines(lines, i + 1, recs, highest)

\* Faulty variant: the counter is set from the number of records loaded
load_clients_counted(file) ==
    IF ~file.exists THEN [clients |-> <<>>, next_id |-> 1]
    ELSE LET r == LoadClientLines(file.lines, 1, <<>>, 0)
         IN [clients |-> r.recs, next_id |-> Len(r.recs) + 1]

load_clients(file) ==
    IF ~file.exists THEN [clients |-> <<>>, next_id |-> 1]
    ELSE LET r == LoadClientLines(file.lines, 1, <<>>, 0)
         IN [clients |-> r.recs, next_id |-> r.highest + 1]

SerializeClients(list) ==
    [i \in 1..Len(list) |-> Put(ClientToDict(list[i]), "record_type", "Client")]

save_clients(list, file, out) ==
    [ok |-> out.kind = "ok",
     file |-> WriteFile(file, SerializeClients(list), out)]

\* Faulty variant: the first record is taken for the one sought
ClientIndexFirst(list, key) == IF list = <<>> THEN 0 ELSE 1

\* Position of the first record whose client_id == key, 0 if none
RECURSIVE ClientIndexFrom(_, _, _)
ClientIndexFrom(list, key, i) ==
    IF i > Len(list) THEN 0
    ELSE IF list[i].client_id = key THEN i
    ELSE ClientIndexFrom(list, key, i + 1)

ClientIndex(list, key) == ClientIndexFrom(list, key, 1)

\* Faulty variant: every key is taken to name the first record
get_client_by_id_any(list, key) == 1

get_client_by_id(list, key) ==
    IF ~IsInt(key) THEN 0 ELSE ClientIndex(list, key)

\* Faulty variant: the manager's own list object is handed out
get_all_clients_own(list) == [items |-> list, own |-> TRUE]

\* get_all_clients: self._clients[:], a new list object with the same
\* records in the same order
get_all_clients(list) == [items |-> list, own |-> FALSE]

\* Faulty variant: the counter is not advanced
client_generate_id_stuck(next_id) == [id |-> next_id, next_id |-> next_id]

\* _generate_id: the ID handed out and the counter afterwards
client_generate_id(next_id) == [id |-> next_id, next_id |-> next_id + 1]

\* Faulty variant: a failed add keeps the ID it generated
client_refund_id_kept(next_id) == next_id

\* self._next_id -= 1 on every failure path of add_client
client_refund_id(next_id) == next_id - 1

\* The result of a call is [clients, next_id, file, ret, why]: the manager's
\* state after the call, the returned record as a sequence of length 0
\* (None) or 1, and the branch the call returned from.
add_client(list, next_id, file, data, out) ==
    LET new_id == client_generate_id(next_id).id
        generated == client_generate_id(next_id).next_id
        d == Put(Put(data, "client_id", IntV(new_id)), "record_type", "Client")
    IN IF ~ClientValid(d)
       THEN [clients |-> list, next_id |-> client_refund_id(generated),
             file |-> file,
             ret |-> <<>>, why |-> "invalid"]
       ELSE LET new_client == ClientFromDict(d)
                appended == Append(list, new_client)
                s == save_clients(appended, file, out)
            IN IF s.ok
               THEN [clients |-> appended, next_id |-> generated, file |-> s.file,
                     ret |-> <<new_client>>, why |-> "saved"]
               ELSE [clients |-> Pop(appended),
                     next_id |-> client_refund_id(generated), file |-> s.file, ret |-> <<>>, why |-> "save_failed"]

\* Faulty variant: every supplied key of the record is applied
ClientMergeAll(current, update_info) ==
    [k \in DOMAIN current |->
        IF k \in DOMAIN update_info THEN update_info[k] ELSE current[k]]

\* The loop of update_client over update_info
ClientMerge(current, update_info) ==
    [k \in DOMAIN current |->
        IF k \in DOMAIN update_info /\ k \notin {"client_id", "record_type"}
        THEN update_info[k] ELSE current[k]]

update_client(list, next_id, file, key, update_info, out) ==
    LET idx == ClientIndex(list, key)
    IN IF idx = 0
       THEN [clients |-> list, next_id |-> next_id, file |-> file,
             ret |-> <<>>, why |-> "not_found"]
       ELSE LET current == ClientToDict(list[idx])
                merged == ClientMerge(current, update_info)
            IN IF merged = current
               THEN [clients |-> list, next_id |-> next_id, file |-> file,
                     ret |-> <<list[idx]>>, why |-> "no_change"]
               ELSE IF ~ClientValid(merged)
               THEN [clients |-> list, next_id |-> next_id, file |-> file,
                     ret |-> <<>>, why |-> "invalid"]
               ELSE LET updated == ClientFromDict(merged)
                        replaced == [list EXCEPT ![idx] = updated]
                        s == save_clients(replaced, file, out)
                    IN IF s.ok
                       THEN [clients |-> replaced, next_id |-> next_id,
                             file |-> s.file, ret |-> <<updated>>, why |-> "saved"]
                       ELSE [clients |-> Restore(replaced, idx, ClientFromDict(current)),
                             next_id |-> next_id, file |-> s.file,
                             ret |-> <<>>, why |-> "save_failed"]

\* The result of delete is [clients, next_id, file, ok, why]
delete_client(list, next_id, file, key, out) ==
    LET idx == ClientIndex(list, key)
    IN IF idx = 0
       THEN [clients |-> list, next_id |-> next_id, file |-> file,
             ok |-> FALSE, why |-> "not_found"]
       ELSE LET removed == PopAt(list, idx)
                s == save_clients(removed, file, out)
            IN IF s.ok
               THEN [clients |-> removed, next_id |-> next_id, file |-> s.file,
                     ok |-> TRUE, why |-> "saved"]
               ELSE [clients |-> InsertAt(removed, idx, list[idx]),
                     next_id |-> next_id, file |-> s.file,
                     ok |-> FALSE, why |-> "save_failed"]

\* Text values: the characters of the strings that occur as field values,
\* as class attributes and as search values; every string not listed is a
\* single character
Chars(s) ==
    CASE s = "" -> <<>>
      [] s = "Client" -> <<"C", "l", "i", "e", "n", "t">>
      [] s = "LIE" -> <<"L", "I", "E">>
      [] s = "ab" -> <<"a", "b">>
      [] s = "record" -> <<"r", "e", "c", "o", "r", "d">>
      [] s = "record.client_record" ->
             <<"r", "e", "c", "o", "r", "d", ".", "c", "l", "i", "e", "n", "t",
               "_", "r", "e", "c", "o", "r", "d">>
      [] OTHER -> <<s>>

\* str.lower() character by character
LowerChar(ch) ==
    CASE ch = "A" -> "a" [] ch = "B" -> "b" [] ch = "C" -> "c"
      [] ch = "E" -> "e" [] ch = "I" -> "i" [] ch = "L" -> "l"
      [] ch = "S" -> "s" [] ch = "X" -> "x" [] ch = "Y" -> "y"
      [] OTHER -> ch
Lower(text) == [i \in DOMAIN text |-> LowerChar(text[i])]

\* needle in hay, for texts
Contains(hay, needle) ==
    \E i \in 0..(Len(hay) - Len(needle)) :
        SubSeq(hay, i + 1, i + Len(needle)) = needle

\* A search value or an attribute value that is a text
TextV(s) == [kind |-> "text", s |-> s]
\* An attribute that is a bound method
MethodV == [kind |-> "method", s |-> ""]

\* The decimal text of a client_id that is a string
DigitText(n) == IF n = 1 THEN "1" ELSE IF n = 2 THEN "2" ELSE "7"

\* hasattr(client_record, key): the instance attributes, the methods and
\* the attributes of the class
ClientAttributes ==
    {"client_id", "record_type", "name", "address_line_1", "address_line_2",
     "address_line_3", "city", "state", "zip_code", "country", "phone_number",
     "to_dict", "__module__"}

\* getattr(client_record, key)
ClientAttribute(rec, key) ==
    CASE key = "client_id" ->
             IF rec.client_id.kind = "str"
             THEN TextV(DigitText(rec.client_id.n))
             ELSE rec.client_id
      [] key = "to_dict" -> MethodV
      [] key = "__module__" -> TextV("record.client_record")
      [] OTHER -> TextV(rec[key])

\* int(search_value) returns a value
IntCoercible(search_value) ==
    \/ search_value.kind = "int"
    \/ search_value.kind = "text" /\ search_value.s \in {"1", "2", "7"}

\* int(search_value)
IntOf(search_value) ==
    IF search_value.kind = "int" THEN search_value.n
    ELSE CASE search_value.s = "1" -> 1
           [] search_value.s = "2" -> 2
           [] search_value.s = "7" -> 7

\* One pass of the inner loop of find_clients: the criterion does not clear
\* match_all_criteria
ClientCriterionMatches(rec, key, search_value) ==
    IF key \notin ClientAttributes THEN FALSE
    ELSE LET client_value == ClientAttribute(rec, key)
         IN IF search_value.kind = "none" THEN client_value.kind = "none"
            ELSE IF client_value.kind = "none" THEN FALSE
            ELSE IF client_value.kind = "text" /\ search_value.kind = "text"
            THEN Contains(Lower(Chars(client_value.s)),
                          Lower(Chars(search_value.s)))
            ELSE IF client_value.kind = "int"
            THEN /\ IntCoercible(search_value)
                 /\ client_value.n = IntOf(search_value)
            ELSE FALSE

find_clients(list, criteria) ==
    IF DOMAIN criteria = {} THEN list
    ELSE SelectSeq(list, LAMBDA rec :
             \A key \in DOMAIN criteria :
                 ClientCriterionMatches(rec, key, criteria[key]))

----------------------------------------------------------------------------
\* AirlineRecord

\* from_dict's required-field loop and __init__'s checks raise nothing
AirlineValid(d) ==
    /\ {"record_type", "company_name"} \subseteq DOMAIN d
    /\ d["record_type"] # ""
    /\ d["company_name"] # ""
    /\ Get(d, "airline_id", NoneV).kind \in {"none", "int"}

AirlineFromDict(d) ==
    [airline_id |-> Get(d, "airline_id", NoneV),
     record_type |-> d["record_type"],
     company_name |-> d["company_name"]]

AirlineToDict(a) ==
    [airline_id |-> a.airline_id,
     record_type |-> a.record_type,
     company_name |-> a.company_name]

----------------------------------------------------------------------------
\* AirlineManager

RECURSIVE LoadAirlineLines(_, _, _, _)
\* The loop of _load_airlines from line i on
LoadAirlineLines(lines, i, recs, highest) ==
    IF i > Len(lines) THEN [recs |-> recs, highest |-> highest]
    ELSE LET line == lines[i]
             kind == LineKind(line)
         IN CASE kind = "blank" -> LoadAirlineLines(lines, i + 1, recs, highest)
              [] kind = "badjson" -> LoadAirlineLines(lines, i + 1, recs, highest)
              \* data.get raises AttributeError: the outer handler ends the loop
              [] kind = "nonobject" -> [recs |-> recs, highest |-> highest]
              [] OTHER ->
                   IF Get(line, "record_type", "") = "Airline" /\ AirlineValid(line)
                   THEN LET a == AirlineFromDict(line)
                            id == a.airline_id
                        IN IF id.kind = "int" /\ id.n > highest
                           THEN LoadAirlineLines(lines, i + 1, Append(recs, a), id.n)
                           ELSE LoadAirlineLines(lines, i + 1, Append(recs, a), highest)
                   ELSE LoadAirlineLines(lines, i + 1, recs, highest)

load_airlines(file) ==
    IF ~file.exists THEN [airlines |-> <<>>, next_id |-> 1]
    ELSE LET r == LoadAirlineLines(file.lines, 1, <<>>, 0)
         IN [airlines |-> r.recs, next_id |-> r.highest + 1]

SerializeAirlines(list) == [i \in 1..Len(list) |-> AirlineToDict(list[i])]

save_airlines(list, file, out) ==
    [ok |-> out.kind = "ok",
     file |-> WriteFile(file, SerializeAirlines(list), out)]

RECURSIVE AirlineIndexFrom(_, _, _)
AirlineIndexFrom(list, key, i) ==
    IF i > Len(list) THEN 0
    ELSE IF list[i].airline_id = key THEN i
    ELSE AirlineIndexFrom(list, key, i + 1)

AirlineIndex(list, key) == AirlineIndexFrom(list, key, 1)

\* Faulty variant: every key is taken to name the first record
get_airline_by_id_any(list, key) == 1

get_airline_by_id(list, key) ==
    IF ~IsInt(key) THEN 0 ELSE AirlineIndex(list, key)

\* get_all_airlines: self._airlines[:]
get_all_airlines(list) == [items |-> list, own |-> FALSE]

\* _generate_id: the ID handed out and the counter afterwards
airline_generate_id(next_id) == [id |-> next_id, next_id |-> next_id + 1]

\* Faulty variant: a failed add keeps the ID it generated
airline_refund_id_kept(next_id) == next_id

\* self._next_id -= 1 on every failure path of add_airline
airline_refund_id(next_id) == next_id - 1

\* The result is [airlines, next_id, file, ret, why]
add_airline(list, next_id, file, data, out) ==
    LET new_id == airline_generate_id(next_id).id
        generated == airline_generate_id(next_id).next_id
        d == Put(data, "airline_id", IntV(new_id))
    IN IF ~Has(d, "record_type")
       THEN [airlines |-> list, next_id |-> airline_refund_id(generated), file |-> file,
             ret |-> <<>>, why |-> "no_record_type"]
       ELSE IF ~Has(d, "company_name") \/ d["company_name"] = ""
       THEN [airlines |-> list, next_id |-> airline_refund_id(generated), file |-> file,
             ret |-> <<>>, why |-> "no_company_name"]
       ELSE IF ~AirlineValid(d)
       THEN [airlines |-> list, next_id |-> airline_refund_id(generated), file |-> file,
             ret |-> <<>>, why |-> "invalid"]
       ELSE LET new_airline == AirlineFromDict(d)
                appended == Append(list, new_airline)
                s == save_airlines(appended, file, out)
            IN IF s.ok
               THEN [airlines |-> appended, next_id |-> generated, file |-> s.file,
                     ret |-> <<new_airline>>, why |-> "saved"]
               ELSE [airlines |-> Pop(appended), next_id |-> airline_refund_id(generated),
                     file |-> s.file, ret |-> <<>>, why |-> "save_failed"]

\* The loop of update_airline over update_info (every key it may add is
\* already a key of to_dict()'s result)
AirlineMerge(current, update_info) ==
    [k \in DOMAIN current |->
        IF k \in DOMAIN update_info /\ k # "airline_id"
        THEN update_info[k] ELSE current[k]]

update_airline(list, next_id, file, key, update_info, out) ==
    LET idx == AirlineIndex(list, key)
    IN IF idx = 0
       THEN [airlines |-> list, next_id |-> next_id, file |-> file,
             ret |-> <<>>, why |-> "not_found"]
       ELSE LET current == AirlineToDict(list[idx])
                merged == AirlineMerge(current, update_info)
            IN IF merged = current
               THEN [airlines |-> list, next_id |-> next_id, file |-> file,
                     ret |-> <<list[idx]>>, why |-> "no_change"]
               ELSE IF ~AirlineValid(merged)
               THEN [airlines |-> list, next_id |-> next_id, file |-> file,
                     ret |-> <<>>, why |-> "invalid"]
               ELSE LET updated == AirlineFromDict(merged)
                        replaced == [list EXCEPT ![idx] = updated]
                        s == save_airlines(replaced, file, out)
                    IN IF s.ok
                       THEN [airlines |-> replaced, next_id |-> next_id,
                             file |-> s.file, ret |-> <<updated>>, why |-> "saved"]
                       ELSE [airlines |-> Restore(replaced, idx, AirlineFromDict(current)),
                             next_id |-> next_id, file |-> s.file,
                             ret |-> <<>>, why |-> "save_failed"]

\* The result is [airlines, next_id, file, ok, why]
delete_airline(list, next_id, file, key, out) ==
    LET idx == AirlineIndex(list, key)
    IN IF idx = 0
       THEN [airlines |-> list, next_id |-> next_id, file |-> file,
             ok |-> FALSE, why |-> "not_found"]
       ELSE LET removed == PopAt(list, idx)
                s == save_airlines(removed, file, out)
            IN IF s.ok
               THEN [airlines |-> removed, next_id |-> next_id, file |-> s.file,
                     ok |-> TRUE, why |-> "saved"]
               ELSE [airlines |-> InsertAt(removed, idx, list[idx]),
                     next_id |-> next_id, file |-> s.file,
                     ok |-> FALSE, why |-> "save_failed"]

----------------------------------------------------------------------------
\* FlightRecord

Days == {1, 2}
Hours == {0, 10}
DateTimes == [day : Days, hour : Hours]

DayText(d) == IF d = 1 THEN "2025-01-01" ELSE "2025-01-02"
HourText(h) == IF h = 0 THEN "T00:00:00" ELSE "T10:00:00"

\* Faulty variant: the text names the other hour
IsoFormatOtherHour(dt) == DayText(dt.day) \o HourText(10 - dt.hour)

\* datetime.isoformat()
IsoFormat(dt) == DayText(dt.day) \o HourText(dt.hour)

IsoTexts == {IsoFormat(dt) : dt \in DateTimes}
DayTexts == {DayText(d) : d \in Days}

\* datetime.fromisoformat(s) returns a value: s is a full timestamp or a
\* date alone (which parses to midnight)
Parsable(s) == s \in IsoTexts \/ s \in DayTexts

\* datetime.fromisoformat(s), for the texts that parse
FromIsoFormat(s) ==
    CASE s = "2025-01-01T00:00:00" -> [day |-> 1, hour |-> 0]
      [] s = "2025-01-01T10:00:00" -> [day |-> 1, hour |-> 10]
      [] s = "2025-01-02T00:00:00" -> [day |-> 2, hour |-> 0]
      [] s = "2025-01-02T10:00:00" -> [day |-> 2, hour |-> 10]
      [] s = "2025-01-01" -> [day |-> 1, hour |-> 0]
      [] s = "2025-01-02" -> [day |-> 2, hour |-> 0]

FlightRequired ==
    {"record_type", "Client_ID", "Airline_ID", "Date", "Start City", "End City"}

\* Faulty variant: __init__ accepts empty texts
FlightValidLax(d) ==
    /\ FlightRequired \subseteq DOMAIN d
    /\ Parsable(d["Date"])
    /\ IsInt(d["Client_ID"])
    /\ IsInt(d["Airline_ID"])

\* from_dict's required-field loop, the date parse and __init__'s checks
\* raise nothing
FlightValid(d) ==
    /\ FlightRequired \subseteq DOMAIN d
    /\ Parsable(d["Date"])
    /\ d["record_type"] # ""
    /\ IsInt(d["Client_ID"])
    /\ IsInt(d["Airline_ID"])
    /\ d["Start City"] # ""
    /\ d["End City"] # ""

\* Faulty variant: the two references are passed in each other's place
FlightFromDictSwapped(d) ==
    [record_type |-> d["record_type"], client_id |-> d["Airline_ID"],
     airline_id |-> d["Client_ID"], flight_date |-> FromIsoFormat(d["Date"]),
     start_city |-> d["Start City"], end_city |-> d["End City"]]

FlightFromDict(d) ==
    [record_type |-> d["record_type"],
     client_id |-> d["Client_ID"],
     airline_id |-> d["Airline_ID"],
     flight_date |-> FromIsoFormat(d["Date"]),
     start_city |-> d["Start City"],
     end_city |-> d["End City"]]

FlightToDict(f) ==
    [k \in FlightRequired |->
        CASE k = "record_type" -> f.record_type
          [] k = "Client_ID" -> f.client_id
          [] k = "Airline_ID" -> f.airline_id
          [] k = "Date" -> IsoFormat(f.flight_date)
          [] k = "Start City" -> f.start_city
          [] k = "End City" -> f.end_city]

----------------------------------------------------------------------------
\* FlightManager

RECURSIVE LoadFlightLines(_, _, _)
\* The loop of _load_flights from line i on
LoadFlightLines(lines, i, recs) ==
    IF i > Len(lines) THEN recs
    ELSE LET line == lines[i]
             kind == LineKind(line)
         IN CASE kind = "blank" -> LoadFlightLines(lines, i + 1, recs)
              [] kind = "badjson" -> LoadFlightLines(lines, i + 1, recs)
              \* data.get raises AttributeError: the outer handler ends the loop
              [] kind = "nonobject" -> recs
              [] OTHER ->
                   IF Get(line, "record_type", "") = "Flight" /\ FlightValid(line)
                   THEN LoadFlightLines(lines, i + 1, Append(recs, FlightFromDict(line)))
                   ELSE LoadFlightLines(lines, i + 1, recs)

load_flights(file) ==
    IF ~file.exists THEN <<>> ELSE LoadFlightLines(file.lines, 1, <<>>)

SerializeFlights(list) == [i \in 1..Len(list) |-> FlightToDict(list[i])]

save_flights(list, file, out) ==
    [ok |-> out.kind = "ok",
     file |-> WriteFile(file, SerializeFlights(list), out)]

\* The result is [flights, file, ret, why]
add_flight(list, file, clist, alist, flight_data, out) ==
    IF ~(FlightRequired \subseteq DOMAIN flight_data)
    THEN [flights |-> list, file |-> file, ret |-> <<>>, why |-> "missing_key"]
    ELSE IF \/ ~IsInt(flight_data["Client_ID"])
            \/ get_client_by_id(clist, flight_data["Client_ID"]) = 0
    THEN [flights |-> list, file |-> file, ret |-> <<>>, why |-> "bad_client"]
    ELSE IF \/ ~IsInt(flight_data["Airline_ID"])
            \/ get_airline_by_id(alist, flight_data["Airline_ID"]) = 0
    THEN [flights |-> list, file |-> file, ret |-> <<>>, why |-> "bad_airline"]
    ELSE IF ~FlightValid(flight_data)
    THEN [flights |-> list, file |-> file, ret |-> <<>>, why |-> "invalid"]
    ELSE LET new_flight == FlightFromDict(flight_data)
             appended == Append(list, new_flight)
             s == save_flights(appended, file, out)
         IN IF s.ok
            THEN [flights |-> appended, file |-> s.file,
                  ret |-> <<new_flight>>, why |-> "saved"]
            ELSE [flights |-> Pop(appended), file |-> s.file,
                  ret |-> <<>>, why |-> "save_failed"]

\* Faulty variant: the date takes no part in the match
id_keys_without_date == {"Client_ID", "Airline_ID", "Start City", "End City"}

id_keys == {"Client_ID", "Airline_ID", "Date", "Start City", "End City"}

\* Faulty variant: the date is compared by its day alone
FlightMatchesByDay(flight, identifying_details) ==
    LET flight_dict == FlightToDict(flight)
    IN \A key \in id_keys :
           /\ key \in DOMAIN identifying_details
           /\ identifying_details[key] =
                  IF key = "Date" THEN DayText(flight.flight_date.day)
                  ELSE flight_dict[key]

\* One pass of _find_flight_index's loop: every key of id_keys is in the
\* identifier with the value flight.to_dict() has for it
FlightMatches(flight, identifying_details) ==
    LET flight_dict == FlightToDict(flight)
    IN \A key \in id_keys :
           /\ key \in DOMAIN identifying_details
           /\ identifying_details[key] = flight_dict[key]

RECURSIVE FlightIndexFrom(_, _, _)
FlightIndexFrom(list, identifying_details, i) ==
    IF i > Len(list) THEN 0
    ELSE IF FlightMatches(list[i], identifying_details) THEN i
    ELSE FlightIndexFrom(list, identifying_details, i + 1)

\* Faulty variant: the last matching flight is taken
find_flight_index_last(list, identifying_details) ==
    LET found == {i \in 1..Len(list) : FlightMatches(list[i], identifying_details)}
    IN IF found = {} THEN 0 ELSE CHOOSE i \in found : \A j \in found : j <= i

\* Position of the first matching flight, 0 for None
find_flight_index(list, identifying_details) ==
    FlightIndexFrom(list, identifying_details, 1)

\* get_all_flights: self._flights[:]
get_all_flights(list) == [items |-> list, own |-> FALSE]

\* A datetime as an attribute value
DateTimeV(dt) == [kind |-> "datetime", dt |-> dt]

\* len(value_to_match) for the texts given as date criteria
TextLen(s) ==
    CASE s \in IsoTexts -> 19
      [] s \in DayTexts -> 10
      [] s = "not a date" -> 10
      [] s = "" -> 0
      [] OTHER -> 1

\* The instance attributes of a FlightRecord that hasattr finds
FlightAttributes ==
    {"record_type", "client_id", "airline_id", "flight_date", "start_city",
     "end_city"}

\* getattr(flight, key)
FlightAttribute(flight, key) ==
    CASE key = "client_id" -> flight.client_id
      [] key = "airline_id" -> flight.airline_id
      [] key = "flight_date" -> DateTimeV(flight.flight_date)
      [] OTHER -> TextV(flight[key])

\* flight_dict_for_search[key]
FlightDictValue(flight, key) ==
    CASE key = "Client_ID" -> flight.client_id
      [] key = "Airline_ID" -> flight.airline_id
      [] OTHER -> TextV(FlightToDict(flight)[key])

\* key.lower() == "date"
IsDateKey(key) == key \in {"date", "Date", "DATE"}

\* One pass of the inner loop of find_flights: the criterion does not clear
\* match
FlightCriterionMatches(flight, key, value_to_match) ==
    IF key \notin FlightAttributes \cup FlightRequired THEN FALSE
    ELSE LET flight_val == IF key \in FlightAttributes
                           THEN FlightAttribute(flight, key)
                           ELSE FlightDictValue(flight, key)
         IN IF /\ IsDateKey(key)
               /\ flight_val.kind = "datetime"
               /\ value_to_match.kind = "text"
            THEN IF ~Parsable(value_to_match.s) THEN FALSE
                 ELSE IF TextLen(value_to_match.s) > 10
                 THEN flight_val.dt = FromIsoFormat(value_to_match.s)
                 ELSE flight_val.dt.day = FromIsoFormat(value_to_match.s).day
            ELSE flight_val = value_to_match

find_flights(list, criteria) ==
    IF DOMAIN criteria = {} THEN list
    ELSE SelectSeq(list, LAMBDA flight :
             \A key \in DOMAIN criteria :
                 FlightCriterionMatches(flight, key, criteria[key]))

\* Faulty variant: every non-empty update counts as a change
FlightChangedAlways(backup, update_data) == DOMAIN update_data # {}

\* changed_fields after the loop of update_flight over update_data
FlightChanged(backup, update_data) ==
    \E key \in DOMAIN update_data :
        key \notin DOMAIN backup \/ backup[key] # update_data[key]

update_flight(list, file, clist, alist, identifying_details, update_data, out) ==
    LET idx == find_flight_index(list, identifying_details)
    IN IF idx = 0
       THEN [flights |-> list, file |-> file, ret |-> <<>>, why |-> "not_found"]
       ELSE
       LET backup == FlightToDict(list[idx])
           new_data == update_data @@ backup
           changed_fields == FlightChanged(backup, update_data)
           client_changes ==
               Has(update_data, "Client_ID")
                   /\ update_data["Client_ID"] # backup["Client_ID"]
           airline_changes ==
               Has(update_data, "Airline_ID")
                   /\ update_data["Airline_ID"] # backup["Airline_ID"]
       IN IF ~changed_fields
          THEN [flights |-> list, file |-> file, ret |-> <<list[idx]>>,
                why |-> "no_change"]
          ELSE IF /\ client_changes
                  /\ \/ ~IsInt(new_data["Client_ID"])
                     \/ get_client_by_id(clist, new_data["Client_ID"]) = 0
          THEN [flights |-> list, file |-> file, ret |-> <<>>, why |-> "bad_client"]
          ELSE IF /\ airline_changes
                  /\ \/ ~IsInt(new_data["Airline_ID"])
                     \/ get_airline_by_id(alist, new_data["Airline_ID"]) = 0
          THEN [flights |-> list, file |-> file, ret |-> <<>>, why |-> "bad_airline"]
          ELSE IF ~FlightValid(new_data)
          THEN [flights |-> list, file |-> file, ret |-> <<>>, why |-> "invalid"]
          ELSE LET updated == FlightFromDict(new_data)
                   replaced == [list EXCEPT ![idx] = updated]
                   s == save_flights(replaced, file, out)
               IN IF s.ok
                  THEN [flights |-> replaced, file |-> s.file,
                        ret |-> <<updated>>, why |-> "saved"]
                  ELSE [flights |-> Restore(replaced, idx, FlightFromDict(backup)),
                        file |-> s.file, ret |-> <<>>, why |-> "save_failed"]

\* The result is [flights, file, ok, why]
delete_flight(list, file, identifying_details, out) ==
    LET idx == find_flight_index(list, identifying_details)
    IN IF idx = 0
       THEN [flights |-> list, file |-> file, ok |-> FALSE, why |-> "not_found"]
       ELSE LET removed == PopAt(list, idx)
                s == save_flights(removed, file, out)
            IN IF s.ok
               THEN [flights |-> removed, file |-> s.file, ok |-> TRUE, why |-> "saved"]
               ELSE [flights |-> InsertAt(removed, idx, list[idx]), file |-> s.file,
                     ok |-> FALSE, why |-> "save_failed"]

----------------------------------------------------------------------------
\* Inputs of the calls and initial backing files

Restrict(d, keys) == [k \in keys |-> d[k]]

ClientBase ==
    [name |-> "A", address_line_1 |-> "X", city |-> "C", state |-> "S",
     zip_code |-> "1", country |-> "Y", phone_number |-> "0"]

ClientInputs ==
    {ClientBase,
     [ClientBase EXCEPT !.name = ""],
     Restrict(ClientBase, ClientRequired \ {"address_line_1"}),
     Put(Put(ClientBase, "client_id", IntV(1)), "record_type", "Airline")}

\* Keys of update and delete: the ID of a stored record, an integer that is
\* no record's ID, and a value that is no integer
ClientKeys(list) == {list[i].client_id : i \in 1..Len(list)} \cup {IntV(0), StrV(1)}

ClientChanges ==
    {[name |-> "A"], [name |-> "B"], [name |-> ""], [address_line_1 |-> ""],
     [client_id |-> IntV(2), record_type |-> "Airline", name |-> "B"]}

AirlineInputs ==
    {[record_type |-> "Airline", company_name |-> "P"],
     [record_type |-> "Cargo", company_name |-> "P"],
     [company_name |-> "P"],
     [record_type |-> "Airline"],
     [record_type |-> "Airline", company_name |-> ""],
     [record_type |-> "", company_name |-> "P"]}

AirlineKeys(list) == {list[i].airline_id : i \in 1..Len(list)} \cup {IntV(0), StrV(1)}

AirlineChanges ==
    {[company_name |-> "P"], [company_name |-> "Q"], [company_name |-> ""],
     [record_type |-> ""], [airline_id |-> IntV(2), record_type |-> "Cargo"]}

\* Criteria of find_clients: none; a name in the other case; the middle of
\* the kind tag in the other case; a text no name contains; two criteria,
\* the ID as a text; an ID; a text that is no number; None; a number for a
\* text field; a name no attribute has; a class attribute; a method
FindCriteria ==
    {<<>>,
     [name |-> TextV("a")],
     [record_type |-> TextV("LIE")],
     [name |-> TextV("ab")],
     [name |-> TextV("a"), client_id |-> TextV("1")],
     [client_id |-> IntV(2)],
     [client_id |-> TextV("a")],
     [client_id |-> NoneV],
     [name |-> NoneV],
     [name |-> IntV(1)],
     [nofield |-> TextV("a")],
     [__module__ |-> TextV("record")],
     [to_dict |-> TextV("a")]}

\* Criteria of find_flights: none; the date as a full timestamp, as a date
\* alone and as a text that is no date; the date under the attribute's name
\* and under a name the record does not have; a reference under the
\* mapping's key and under the attribute's name; two criteria
FlightFindCriteria ==
    {<<>>,
     "Date" :> TextV("2025-01-01T10:00:00"),
     "Date" :> TextV("2025-01-01"),
     "Date" :> TextV("2025-01-02"),
     "Date" :> TextV("not a date"),
     "flight_date" :> TextV("2025-01-01"),
     "date" :> TextV("2025-01-01"),
     "Client_ID" :> IntV(1),
     "client_id" :> IntV(2),
     ("Start City" :> TextV("L")) @@ ("End City" :> TextV("P"))}

FlightData(cid, aid, date, start_city, end_city) ==
    [k \in FlightRequired |->
        CASE k = "record_type" -> "Flight"
          [] k = "Client_ID" -> cid
          [] k = "Airline_ID" -> aid
          [] k = "Date" -> date
          [] k = "Start City" -> start_city
          [] k = "End City" -> end_city]

FlightInputs ==
    {FlightData(IntV(1), IntV(1), "2025-01-01T10:00:00", "L", "P"),
     FlightData(IntV(2), IntV(1), "2025-01-01T10:00:00", "L", "P"),
     FlightData(IntV(1), IntV(1), "not a date", "L", "P"),
     FlightData(IntV(1), IntV(1), "2025-01-01T10:00:00", "L", ""),
     FlightData(StrV(1), IntV(1), "2025-01-01T10:00:00", "L", "P"),
     FlightData(IntV(1), NoneV, "2025-01-01T10:00:00", "L", "P"),
     FlightData(IntV(3), IntV(1), "2025-01-01T10:00:00", "L", "P"),
     FlightData(IntV(1), IntV(3), "2025-01-01T10:00:00", "L", "P"),
     Restrict(FlightData(IntV(1), IntV(1), "2025-01-01T10:00:00", "L", "P"),
              FlightRequired \ {"End City"})}

\* Flight data that add_flight refuses although client cid and airline aid
\* exist: one of the six required keys is missing, the date does not parse,
\* a city or the kind tag is empty
RefusedFlightData(cid, aid) ==
    LET d == FlightData(cid, aid, "2025-01-02T10:00:00", "L", "P")
    IN {Restrict(d, FlightRequired \ {key}) : key \in FlightRequired}
          \cup {Put(d, "Date", "not a date"), Put(d, "Date", ""),
                 Put(d, "Start City", ""), Put(d, "End City", ""),
                 Put(d, "record_type", "")}

\* Identifiers: the external mapping of a stored flight, the same with one
\* key dropped, and one that matches nothing
FlightIdentifiers(list) ==
    {FlightToDict(list[i]) : i \in 1..Len(list)}
        \cup {Restrict(FlightToDict(list[i]), FlightRequired \ {"Date"}) :
                 i \in 1..Len(list)}
        \cup {FlightData(IntV(3), IntV(3), "2025-01-02T10:00:00", "L", "P")}

\* Identifiers built from the stored flights: the flight's own mapping,
\* the mapping without one key, with one value changed, and with another
\* kind tag
FlightIdentifierVariants(list) ==
    UNION {LET d == FlightToDict(list[i])
           IN {d, Put(d, "record_type", "Charter"),
               Put(d, "Client_ID", StrV(1)), Put(d, "Airline_ID", IntV(3)),
               Put(d, "Date", "2025-01-02T10:00:00"), Put(d, "Date", "2025-01-01"),
               Put(d, "Start City", "l"), Put(d, "End City", "")}
              \cup {Restrict(d, DOMAIN d \ {key}) : key \in DOMAIN d}
           : i \in 1..Len(list)}

FlightChanges ==
    {"Date" :> "2025-01-02T10:00:00", "Date" :> "not a date", "End City" :> "",
     "Client_ID" :> IntV(1), "Client_ID" :> IntV(2), "Client_ID" :> StrV(2),
     "Airline_ID" :> IntV(1), "Airline_ID" :> IntV(2), "Airline_ID" :> NoneV,
     "Gate" :> "X"}

ClientLine(id, name) ==
    Put(Put([ClientBase EXCEPT !.name = name], "client_id", id), "record_type", "Client")

AirlineLine(id, company_name) ==
    [airline_id |-> id, record_type |-> "Airline", company_name |-> company_name]

FlightLine(cid, aid) == FlightData(cid, aid, "2025-01-01T10:00:00", "L", "P")

CleanClients == FileOf(<<ClientLine(IntV(1), "A"), ClientLine(IntV(2), "A")>>)
CleanAirlines == FileOf(<<AirlineLine(IntV(1), "P")>>)

\* The ways the save of a call is explored to end, for a call that gets as
\* far as the save (saving): it completes, fails before the file is opened,
\* or fails on the first record. Write failures are explored for the manager
\* the run exercises; in a flight run the ClientManager only loses records
\* (a flight naming an airline that no record has is loaded from the file).
SaveOutcomes(manager, saving, n) ==
    IF saving /\ session = manager
    THEN {out \in WriteOutcomes(n) : out.k = 0}
    ELSE {OkOutcome}

\* Backing files the managers are first constructed over
ClientFiles ==
    << AbsentFile,
       FileOf(<<>>),
       FileOf(<<ClientLine(IntV(1), "A"), ClientLine(IntV(2), "B")>>),
       \* bad lines the loader skips, around a good one
       FileOf(<<BadJsonLine, ClientLine(IntV(2), "A"), BlankLine,
                AirlineLine(IntV(3), "P"),
                Restrict(ClientLine(IntV(3), "A"), {"client_id", "record_type", "city"})>>),
       \* a line that is valid JSON but no object, between good ones
       FileOf(<<ClientLine(IntV(1), "A"), NonObjectLine, ClientLine(IntV(2), "A")>>),
       \* records without a positive ID
       FileOf(<<ClientLine(IntV(-1), "A"), ClientLine(NoneV, "A")>>) >>

AirlineFiles ==
    << AbsentFile,
       FileOf(<<>>),
       FileOf(<<AirlineLine(IntV(1), "P"), AirlineLine(IntV(2), "Q")>>),
       FileOf(<<AirlineLine(IntV(3), ""), BadJsonLine, ClientLine(IntV(3), "A"),
                BlankLine, AirlineLine(IntV(1), "P")>>),
       FileOf(<<NonObjectLine, AirlineLine(IntV(1), "P")>>),
       FileOf(<<AirlineLine(IntV(-1), "P"), AirlineLine(NoneV, "P")>>) >>

FlightFiles ==
    << AbsentFile,
       FileOf(<<FlightLine(IntV(1), IntV(1)), FlightLine(IntV(2), IntV(2))>>),
       FileOf(<<BlankLine, FlightData(IntV(1), IntV(1), "not a date", "L", "P"),
                FlightLine(IntV(2), IntV(1)), BadJsonLine,
                AirlineLine(IntV(1), "P")>>),
       FileOf(<<FlightLine(IntV(1), IntV(1)), NonObjectLine,
                FlightLine(IntV(2), IntV(1))>>) >>

----------------------------------------------------------------------------
\* The system: the three managers as main() wires them

\* ClientManager(...), AirlineManager(...), FlightManager(...) over the files
Constructed(c, a, f) ==
    /\ clients = load_clients(c).clients
    /\ cNext = load_clients(c).next_id
    /\ cFile = c
    /\ airlines = load_airlines(a).airlines
    /\ aNext = load_airlines(a).next_id
    /\ aFile = a
    /\ flights = load_flights(f)
    /\ fFile = f
    /\ issued = [c |-> 0, a |-> 0]
    /\ deleted = [c |-> {}, a |-> {}]
    /\ started = [c |-> load_clients(c).clients = <<>>,
                  a |-> load_airlines(a).airlines = <<>>]
    /\ added = [c |-> 0, a |-> 0]

\* A run exercises one manager: the ClientManager or the AirlineManager on
\* its own, or the FlightManager together with the two managers it reads,
\* constructed over files with clients 1 and 2 and airline 1.
Init ==
    \/ /\ session = "client"
       /\ \E i \in 1..Len(ClientFiles) :
              Constructed(ClientFiles[i], AbsentFile, AbsentFile)
    \/ /\ session = "airline"
       /\ \E i \in 1..Len(AirlineFiles) :
              Constructed(AbsentFile, AirlineFiles[i], AbsentFile)
    \/ /\ session = "flight"
       /\ \E i \in 1..Len(FlightFiles) :
              Constructed(CleanClients, CleanAirlines, FlightFiles[i])

\* The program is started again over the files as they are
Construct ==
    /\ clients' = load_clients(cFile).clients
    /\ cNext' = load_clients(cFile).next_id
    /\ airlines' = load_airlines(aFile).airlines
    /\ aNext' = load_airlines(aFile).next_id
    /\ flights' = load_flights(fFile)
    /\ issued' = [c |-> 0, a |-> 0]
    /\ deleted' = [c |-> {}, a |-> {}]
    /\ started' = [c |-> load_clients(cFile).clients = <<>>,
                   a |-> load_airlines(aFile).airlines = <<>>]
    /\ added' = [c |-> 0, a |-> 0]
    /\ UNCHANGED <<cFile, aFile, fFile, session>>

AddClient ==
    /\ session = "client"
    /\ Len(clients) < MaxRecs
    /\ cNext <= MaxNextId
    /\ \E data \in ClientInputs :
       \E out \in SaveOutcomes("client",
                     add_client(clients, cNext, cFile, data, OkOutcome).why = "saved",
                     Len(clients) + 1) :
         LET r == add_client(clients, cNext, cFile, data, out)
         IN /\ clients' = r.clients
            /\ cNext' = r.next_id
            /\ cFile' = r.file
            /\ issued' = IF r.ret # <<>>
                         THEN [issued EXCEPT !.c = r.ret[1].client_id.n]
                         ELSE issued
            /\ added' = IF r.ret # <<>> /\ started.c
                        THEN [added EXCEPT !.c = @ + 1] ELSE added
    /\ UNCHANGED <<airlines, aNext, aFile, flights, fFile, deleted,
                   session, started>>

UpdateClient ==
    /\ session = "client"
    /\ \E key \in ClientKeys(clients), update_info \in ClientChanges :
       \E out \in SaveOutcomes("client",
                     update_client(clients, cNext, cFile, key, update_info,
                                   OkOutcome).why = "saved",
                     Len(clients)) :
         LET r == update_client(clients, cNext, cFile, key, update_info, out)
         IN /\ clients' = r.clients
            /\ cNext' = r.next_id
            /\ cFile' = r.file
    /\ UNCHANGED <<airlines, aNext, aFile, flights, fFile, issued,
                   deleted, session, started, added>>

\* A delete_client that also removed the flights of the deleted client
DeleteClientCascading ==
    /\ session \in {"client", "flight"}
    /\ \E key \in ClientKeys(clients) :
         LET r == delete_client(clients, cNext, cFile, key, OkOutcome)
         IN /\ clients' = r.clients
            /\ cNext' = r.next_id
            /\ cFile' = r.file
            /\ flights' = IF r.ok
                          THEN SelectSeq(flights, LAMBDA f : f.client_id # key)
                          ELSE flights
    /\ UNCHANGED <<airlines, aNext, aFile, fFile, issued, deleted,
                   session, started, added>>

DeleteClient ==
    /\ session \in {"client", "flight"}
    /\ \E key \in ClientKeys(clients) :
       \E out \in SaveOutcomes("client",
                     delete_client(clients, cNext, cFile, key, OkOutcome).why = "saved",
                     Len(clients) - 1) :
         LET r == delete_client(clients, cNext, cFile, key, out)
         IN /\ clients' = r.clients
            /\ cNext' = r.next_id
            /\ cFile' = r.file
            /\ deleted' = IF r.ok /\ IsInt(key) /\ session = "client"
                          THEN [deleted EXCEPT !.c = @ \cup {key.n}]
                          ELSE deleted
    /\ UNCHANGED <<airlines, aNext, aFile, flights, fFile, issued,
                   session, started, added>>

AddAirline ==
    /\ session = "airline"
    /\ Len(airlines) < MaxRecs
    /\ aNext <= MaxNextId
    /\ \E data \in AirlineInputs :
       \E out \in SaveOutcomes("airline",
                     add_airline(airlines, aNext, aFile, data, OkOutcome).why = "saved",
                     Len(airlines) + 1) :
         LET r == add_airline(airlines, aNext, aFile, data, out)
         IN /\ airlines' = r.airlines
            /\ aNext' = r.next_id
            /\ aFile' = r.file
            /\ issued' = IF r.ret # <<>>
                         THEN [issued EXCEPT !.a = r.ret[1].airline_id.n]
                         ELSE issued
            /\ added' = IF r.ret # <<>> /\ started.a
                        THEN [added EXCEPT !.a = @ + 1] ELSE added
    /\ UNCHANGED <<clients, cNext, cFile, flights, fFile, deleted,
                   session, started>>

UpdateAirline ==
    /\ session = "airline"
    /\ \E key \in AirlineKeys(airlines), update_info \in AirlineChanges :
       \E out \in SaveOutcomes("airline",
                     update_airline(airlines, aNext, aFile, key, update_info,
                                    OkOutcome).why = "saved",
                     Len(airlines)) :
         LET r == update_airline(airlines, aNext, aFile, key, update_info, out)
         IN /\ airlines' = r.airlines
            /\ aNext' = r.next_id
            /\ aFile' = r.file
    /\ UNCHANGED <<clients, cNext, cFile, flights, fFile, issued,
                   deleted, session, started, added>>

DeleteAirline ==
    /\ session = "airline"
    /\ \E key \in AirlineKeys(airlines) :
       \E out \in SaveOutcomes("airline",
                     delete_airline(airlines, aNext, aFile, key, OkOutcome).why = "saved",
                     Len(airlines) - 1) :
         LET r == delete_airline(airlines, aNext, aFile, key, out)
         IN /\ airlines' = r.airlines
            /\ aNext' = r.next_id
            /\ aFile' = r.file
            /\ deleted' = IF r.ok /\ IsInt(key)
                          THEN [deleted EXCEPT !.a = @ \cup {key.n}]
                          ELSE deleted
    /\ UNCHANGED <<clients, cNext, cFile, flights, fFile, issued,
                   session, started, added>>

AddFlight ==
    /\ session = "flight"
    /\ Len(flights) < MaxRecs
    /\ \E flight_data \in FlightInputs :
       \E out \in SaveOutcomes("flight",
                     add_flight(flights, fFile, clients, airlines, flight_data,
                                OkOutcome).why = "saved",
                     Len(flights) + 1) :
         LET r == add_flight(flights, fFile, clients, airlines, flight_data, out)
         IN /\ flights' = r.flights
            /\ fFile' = r.file
    /\ UNCHANGED <<clients, cNext, cFile, airlines, aNext, aFile,
                   issued, deleted, session, started, added>>

UpdateFlight ==
    /\ session = "flight"
    /\ \E identifying_details \in FlightIdentifiers(flights),
          update_data \in FlightChanges :
       \E out \in SaveOutcomes("flight",
                     update_flight(flights, fFile, clients, airlines,
                                   identifying_details, update_data,
                                   OkOutcome).why = "saved",
                     Len(flights)) :
         LET r == update_flight(flights, fFile, clients, airlines,
                                identifying_details, update_data, out)
         IN /\ flights' = r.flights
            /\ fFile' = r.file
    /\ UNCHANGED <<clients, cNext, cFile, airlines, aNext, aFile,
                   issued, deleted, session, started, added>>

DeleteFlight ==
    /\ session = "flight"
    /\ \E identifying_details \in FlightIdentifiers(flights) :
       \E out \in SaveOutcomes("flight",
                     delete_flight(flights, fFile, identifying_details,
                                   OkOutcome).why = "saved",
                     Len(flights) - 1) :
         LET r == delete_flight(flights, fFile, identifying_details, out)
         IN /\ flights' = r.flights
            /\ fFile' = r.file
    /\ UNCHANGED <<clients, cNext, cFile, airlines, aNext, aFile,
                   issued, deleted, session, started, added>>

Next ==
    \/ Construct
    \/ AddClient
    \/ UpdateClient
    \/ DeleteClient
    \/ AddAirline
    \/ UpdateAirline
    \/ DeleteAirline
    \/ AddFlight
    \/ UpdateFlight
    \/ DeleteFlight

Spec == Init /\ [][Next]_vars

\* The runs that exercise the ClientManager or the AirlineManager on its own
InitRecords == Init /\ session \in {"client", "airline"}

NextRecords ==
    \/ Construct
    \/ AddClient
    \/ UpdateClient
    \/ DeleteClient
    \/ AddAirline
    \/ UpdateAirline
    \/ DeleteAirline

SpecRecords == InitRecords /\ [][NextRecords]_vars

\* The runs that exercise the FlightManager: flights are added, updated and
\* deleted while the clients they name are deleted
InitFlights == Init /\ session = "flight"

NextFlights ==
    \/ Construct
    \/ DeleteClient
    \/ AddFlight
    \/ UpdateFlight
    \/ DeleteFlight

SpecFlights == InitFlights /\ [][NextFlights]_vars

----------------------------------------------------------------------------
\* Properties
\*
\* A property about a call is stated over every call that can be made in a
\* reachable state: every input of the input sets and every way its save
\* can end, including the write failures after k > 0 lines that the actions
\* do not take.

\* The three managers' calls on the current state
AddClientCall(data, out) == add_client(clients, cNext, cFile, data, out)
UpdateClientCall(key, info, out) == update_client(clients, cNext, cFile, key, info, out)
DeleteClientCall(key, out) == delete_client(clients, cNext, cFile, key, out)
AddAirlineCall(data, out) == add_airline(airlines, aNext, aFile, data, out)
UpdateAirlineCall(key, info, out) == update_airline(airlines, aNext, aFile, key, info, out)
DeleteAirlineCall(key, out) == delete_airline(airlines, aNext, aFile, key, out)
AddFlightCall(data, out) == add_flight(flights, fFile, clients, airlines, data, out)
UpdateFlightCall(ident, data, out) ==
    update_flight(flights, fFile, clients, airlines, ident, data, out)
DeleteFlightCall(ident, out) == delete_flight(flights, fFile, ident, out)

\* The ways a save can fail
FailedSaves(n) == {out \in WriteOutcomes(n) : out.kind # "ok"}

\* C1: when the save of an add fails, the add returns no record, the list
\* is the list before the call, and the Client/Airline next-ID counter has
\* its value before the call -- for each of the three managers. (The adds
\* that reach their save are those that succeed when the save completes.)
C1_AddSaveFailureRollsBack ==
    /\ \A data \in ClientInputs :
           AddClientCall(data, OkOutcome).why = "saved" =>
               \A out \in FailedSaves(Len(clients) + 1) :
                   LET r == AddClientCall(data, out)
                   IN r.ret = <<>> /\ r.clients = clients /\ r.next_id = cNext
    /\ \A data \in AirlineInputs :
           AddAirlineCall(data, OkOutcome).why = "saved" =>
               \A out \in FailedSaves(Len(airlines) + 1) :
                   LET r == AddAirlineCall(data, out)
                   IN r.ret = <<>> /\ r.airlines = airlines /\ r.next_id = aNext
    /\ \A data \in FlightInputs :
           AddFlightCall(data, OkOutcome).why = "saved" =>
               \A out \in FailedSaves(Len(flights) + 1) :
                   LET r == AddFlightCall(data, out)
                   IN r.ret = <<>> /\ r.flights = flights

\* A failed save has left the client file torn while the list holds a
\* record, and an add whose save fails is rolled back there.
C1_Witness ==
    /\ session = "client"
    /\ clients # <<>>
    /\ cNext > 1
    /\ cFile.lines = <<BadJsonLine>>
    /\ \E data \in ClientInputs, out \in FailedSaves(Len(clients) + 1) :
           LET r == AddClientCall(data, out)
           IN r.why = "save_failed" /\ r.clients = clients /\ r.next_id = cNext

\* C2: when the save of an update fails, the update returns no record and
\* the list equals the list before the call field for field, the counter
\* unchanged -- for each of the three managers.
C2_UpdateSaveFailureRollsBack ==
    /\ \A key \in ClientKeys(clients), info \in ClientChanges :
           UpdateClientCall(key, info, OkOutcome).why = "saved" =>
               \A out \in FailedSaves(Len(clients)) :
                   LET r == UpdateClientCall(key, info, out)
                   IN r.ret = <<>> /\ r.clients = clients /\ r.next_id = cNext
    /\ \A key \in AirlineKeys(airlines), info \in AirlineChanges :
           UpdateAirlineCall(key, info, OkOutcome).why = "saved" =>
               \A out \in FailedSaves(Len(airlines)) :
                   LET r == UpdateAirlineCall(key, info, out)
                   IN r.ret = <<>> /\ r.airlines = airlines /\ r.next_id = aNext
    /\ \A ident \in FlightIdentifiers(flights), data \in FlightChanges :
           UpdateFlightCall(ident, data, OkOutcome).why = "saved" =>
               \A out \in FailedSaves(Len(flights)) :
                   LET r == UpdateFlightCall(ident, data, out)
                   IN r.ret = <<>> /\ r.flights = flights

\* A failed save has left the flight file torn while two flights are
\* stored, and an update of the second that fails to save after the first
\* line was written leaves the list as it is.
C2_Witness ==
    /\ session = "flight"
    /\ Len(flights) = 2
    /\ fFile.lines = <<BadJsonLine>>
    /\ \E ident \in FlightIdentifiers(flights), data \in FlightChanges :
           LET r == UpdateFlightCall(ident, data, [kind |-> "fail_write", k |-> 1])
           IN /\ r.why = "save_failed"
              /\ find_flight_index(flights, ident) = 2
              /\ r.flights = flights

\* C3: when the save of a delete fails, the delete returns false and the
\* removed record is back at its original position: the list is the list
\* before the call -- for each of the three managers.
C3_DeleteSaveFailureRollsBack ==
    /\ \A key \in ClientKeys(clients) :
           DeleteClientCall(key, OkOutcome).why = "saved" =>
               \A out \in FailedSaves(Len(clients) - 1) :
                   LET r == DeleteClientCall(key, out)
                   IN ~r.ok /\ r.clients = clients /\ r.next_id = cNext
    /\ \A key \in AirlineKeys(airlines) :
           DeleteAirlineCall(key, OkOutcome).why = "saved" =>
               \A out \in FailedSaves(Len(airlines) - 1) :
                   LET r == DeleteAirlineCall(key, out)
                   IN ~r.ok /\ r.airlines = airlines /\ r.next_id = aNext
    /\ \A ident \in FlightIdentifiers(flights) :
           DeleteFlightCall(ident, OkOutcome).why = "saved" =>
               \A out \in FailedSaves(Len(flights) - 1) :
                   LET r == DeleteFlightCall(ident, out)
                   IN ~r.ok /\ r.flights = flights

\* A failed save has left the airline file torn while two different
\* airlines are stored, and a delete of the first that fails to save puts
\* the record back at position 1, not at the end.
C3_Witness ==
    /\ session = "airline"
    /\ Len(airlines) = 2
    /\ airlines[1] # airlines[2]
    /\ aFile.lines = <<BadJsonLine>>
    /\ \E key \in AirlineKeys(airlines), out \in FailedSaves(Len(airlines) - 1) :
           LET r == DeleteAirlineCall(key, out)
           IN /\ r.why = "save_failed"
              /\ AirlineIndex(airlines, key) = 1
              /\ r.airlines[1] = airlines[1]

\* C4: within one ClientManager or AirlineManager instance the IDs of the
\* successful adds are strictly increasing in call order (so pairwise
\* distinct), and no add returns the ID of a record deleted before it:
\* whatever calls came before, a successful add returns an ID above the last
\* one issued by this instance and outside the IDs it has deleted.
C4_IdsIncreaseAndAreNotReissued ==
    /\ \A data \in ClientInputs :
           LET r == AddClientCall(data, OkOutcome)
           IN r.ret # <<>> =>
                  /\ r.ret[1].client_id.n > issued.c
                  /\ r.ret[1].client_id.n \notin deleted.c
    /\ \A data \in AirlineInputs :
           LET r == AddAirlineCall(data, OkOutcome)
           IN r.ret # <<>> =>
                  /\ r.ret[1].airline_id.n > issued.a
                  /\ r.ret[1].airline_id.n \notin deleted.a

\* The record that got the last ID issued has been deleted, and the next
\* add succeeds with a larger ID.
C4_Witness ==
    /\ session = "client"
    /\ issued.c > 1
    /\ issued.c \in deleted.c
    /\ \E data \in ClientInputs :
           LET r == AddClientCall(data, OkOutcome)
           IN r.ret # <<>> /\ r.ret[1].client_id.n > issued.c

\* v is an integer and the ID of a record currently in the manager
ClientPresent(v) ==
    IsInt(v) /\ \E i \in 1..Len(clients) : clients[i].client_id = v
AirlinePresent(v) ==
    IsInt(v) /\ \E i \in 1..Len(airlines) : airlines[i].airline_id = v

\* C5: add_flight returns no record whenever the client reference is not an
\* integer ID of a record in the ClientManager or the airline reference is
\* not one of a record in the AirlineManager; the flight list is unchanged
\* and the file is not written.
C5_AddFlightRejectsUnresolvedReference ==
    \A data \in FlightInputs :
        ( /\ {"Client_ID", "Airline_ID"} \subseteq DOMAIN data
          /\ \/ ~ClientPresent(data["Client_ID"])
             \/ ~AirlinePresent(data["Airline_ID"]) )
        => \A out \in WriteOutcomes(Len(flights) + 1) :
               LET r == AddFlightCall(data, out)
               IN r.ret = <<>> /\ r.flights = flights /\ r.file = fFile

\* Client 2 was deleted while a flight of it is stored, and an add for
\* client 2 is refused.
C5_Witness ==
    /\ session = "flight"
    /\ ~ClientPresent(IntV(2))
    /\ \E i \in 1..Len(flights) : flights[i].client_id = IntV(2)
    /\ \E data \in FlightInputs :
           /\ FlightRequired \subseteq DOMAIN data
           /\ data["Client_ID"] = IntV(2)
           /\ AirlinePresent(data["Airline_ID"])
           /\ AddFlightCall(data, OkOutcome).ret = <<>>

\* Changes of update_flight: those the actions make, and changes of two
\* fields at once
FlightChangesOfTwo ==
    {("Client_ID" :> IntV(2)) @@ ("Airline_ID" :> IntV(3)),
     ("Client_ID" :> IntV(2)) @@ ("Airline_ID" :> IntV(1)),
     ("Client_ID" :> IntV(3)) @@ ("Date" :> "2025-01-02T10:00:00"),
     ("Airline_ID" :> StrV(1)) @@ ("End City" :> "Q")}

AllFlightChanges == FlightChanges \cup FlightChangesOfTwo

\* The update sets the reference `key` of the stored flight (whose external
\* mapping is stored) to a different value
ChangesReference(update_data, stored, key) ==
    key \in DOMAIN update_data /\ update_data[key] # stored[key]

\* C6: an update_flight that sets the client or airline reference to a
\* value different from the stored one, the new value not being an integer
\* ID present in the respective manager, returns no record, leaves the
\* flight list unchanged (the flight is still found under its identifier)
\* and does not write the file.
C6_UpdateFlightRejectsUnresolvedNewReference ==
    \A ident \in FlightIdentifiers(flights), data \in AllFlightChanges :
        LET idx == find_flight_index(flights, ident)
        IN ( /\ idx # 0
             /\ \/ /\ ChangesReference(data, FlightToDict(flights[idx]), "Client_ID")
                   /\ ~ClientPresent(data["Client_ID"])
                \/ /\ ChangesReference(data, FlightToDict(flights[idx]), "Airline_ID")
                   /\ ~AirlinePresent(data["Airline_ID"]) )
           => \A out \in WriteOutcomes(Len(flights)) :
                  LET r == UpdateFlightCall(ident, data, out)
                  IN /\ r.ret = <<>>
                     /\ r.flights = flights
                     /\ r.file = fFile
                     /\ find_flight_index(r.flights, ident) = idx

\* Client 1 was deleted, and an update that moves a stored flight of
\* client 2 to client 1 is refused.
C6_Witness ==
    /\ session = "flight"
    /\ ~ClientPresent(IntV(1))
    /\ \E ident \in FlightIdentifiers(flights) :
           LET idx == find_flight_index(flights, ident)
               r == UpdateFlightCall(ident, "Client_ID" :> IntV(1), OkOutcome)
           IN /\ idx # 0
              /\ flights[idx].client_id = IntV(2)
              /\ ClientPresent(IntV(2))
              /\ r.ret = <<>>
              /\ r.flights = flights

\* C7 as the specification states it: whenever add_flight or update_flight
\* succeeds, both references of the resulting flight resolve.
C7_EverySuccessResolvesBothReferences ==
    /\ \A data \in FlightInputs :
           LET r == AddFlightCall(data, OkOutcome)
           IN r.why = "saved" =>
                  /\ ClientPresent(r.ret[1].client_id)
                  /\ AirlinePresent(r.ret[1].airline_id)
    /\ \A ident \in FlightIdentifiers(flights), data \in AllFlightChanges :
           LET r == UpdateFlightCall(ident, data, OkOutcome)
           IN r.why = "saved" =>
                  /\ ClientPresent(r.ret[1].client_id)
                  /\ AirlinePresent(r.ret[1].airline_id)

\* C7, amended: whenever add_flight succeeds, both references of the new
\* flight resolve; whenever update_flight succeeds, each reference that the
\* update set to a different value resolves, and a reference it did not
\* change keeps its stored value, resolving or not.
C7_SuccessResolvesTheReferencesItSets ==
    /\ \A data \in FlightInputs :
           LET r == AddFlightCall(data, OkOutcome)
           IN r.why = "saved" =>
                  /\ ClientPresent(r.ret[1].client_id)
                  /\ AirlinePresent(r.ret[1].airline_id)
    /\ \A ident \in FlightIdentifiers(flights), data \in AllFlightChanges :
           LET r == UpdateFlightCall(ident, data, OkOutcome)
               old == flights[find_flight_index(flights, ident)]
           IN r.why = "saved" =>
                  /\ IF ChangesReference(data, FlightToDict(old), "Client_ID")
                     THEN ClientPresent(r.ret[1].client_id)
                     ELSE r.ret[1].client_id = old.client_id
                  /\ IF ChangesReference(data, FlightToDict(old), "Airline_ID")
                     THEN AirlinePresent(r.ret[1].airline_id)
                     ELSE r.ret[1].airline_id = old.airline_id

\* Client 2 was deleted, and an update of the date alone of a stored flight
\* of client 2 succeeds: the flight it returns names no client.
C7_Witness ==
    /\ session = "flight"
    /\ Len(clients) = 1
    /\ \E ident \in FlightIdentifiers(flights) :
           LET r == UpdateFlightCall(ident, "Date" :> "2025-01-02T10:00:00", OkOutcome)
           IN /\ r.why = "saved"
              /\ r.ret[1].client_id = IntV(2)
              /\ ~ClientPresent(r.ret[1].client_id)
              /\ AirlinePresent(r.ret[1].airline_id)

\* C8 as the specification states it: a call that does not complete
\* successfully leaves the content of the backing file as it was.
C8_UnsuccessfulCallLeavesFile ==
    /\ \A data \in ClientInputs, out \in WriteOutcomes(Len(clients) + 1) :
           LET r == AddClientCall(data, out) IN r.ret = <<>> => r.file = cFile
    /\ \A key \in ClientKeys(clients), info \in ClientChanges,
          out \in WriteOutcomes(Len(clients)) :
           LET r == UpdateClientCall(key, info, out) IN r.ret = <<>> => r.file = cFile
    /\ \A key \in ClientKeys(clients), out \in WriteOutcomes(Len(clients) - 1) :
           LET r == DeleteClientCall(key, out) IN ~r.ok => r.file = cFile
    /\ \A data \in AirlineInputs, out \in WriteOutcomes(Len(airlines) + 1) :
           LET r == AddAirlineCall(data, out) IN r.ret = <<>> => r.file = aFile
    /\ \A key \in AirlineKeys(airlines), info \in AirlineChanges,
          out \in WriteOutcomes(Len(airlines)) :
           LET r == UpdateAirlineCall(key, info, out) IN r.ret = <<>> => r.file = aFile
    /\ \A key \in AirlineKeys(airlines), out \in WriteOutcomes(Len(airlines) - 1) :
           LET r == DeleteAirlineCall(key, out) IN ~r.ok => r.file = aFile
    /\ \A data \in FlightInputs, out \in WriteOutcomes(Len(flights) + 1) :
           LET r == AddFlightCall(data, out) IN r.ret = <<>> => r.file = fFile
    /\ \A ident \in FlightIdentifiers(flights), data \in FlightChanges,
          out \in WriteOutcomes(Len(flights)) :
           LET r == UpdateFlightCall(ident, data, out) IN r.ret = <<>> => r.file = fFile
    /\ \A ident \in FlightIdentifiers(flights),
          out \in WriteOutcomes(Len(flights) - 1) :
           LET r == DeleteFlightCall(ident, out) IN ~r.ok => r.file = fFile

\* An update of a client failed while the file was being rewritten: the
\* list still holds two records and the file holds the torn start of one
\* line.
C8_Witness ==
    /\ session = "client"
    /\ Len(clients) = 2
    /\ cFile = FileOf(<<BadJsonLine>>)

\* The lines of a file that are well-formed records of the manager's kind
WellFormedClient(line) ==
    /\ LineKind(line) = "object"
    /\ Get(line, "record_type", "") = "Client"
    /\ ClientValid(line)
WellFormedAirline(line) ==
    /\ LineKind(line) = "object"
    /\ Get(line, "record_type", "") = "Airline"
    /\ AirlineValid(line)
WellFormedFlight(line) ==
    /\ LineKind(line) = "object"
    /\ Get(line, "record_type", "") = "Flight"
    /\ FlightValid(line)

\* C9 as the specification states it: loading a file yields the records of
\* its well-formed lines of the manager's kind, in file order, whatever the
\* other lines are.
C9_LoadKeepsEveryWellFormedLine ==
    /\ LET good == SelectSeq(cFile.lines, WellFormedClient)
       IN load_clients(cFile).clients
              = [i \in 1..Len(good) |-> ClientFromDict(good[i])]
    /\ LET good == SelectSeq(aFile.lines, WellFormedAirline)
       IN load_airlines(aFile).airlines
              = [i \in 1..Len(good) |-> AirlineFromDict(good[i])]
    /\ LET good == SelectSeq(fFile.lines, WellFormedFlight)
       IN load_flights(fFile)
              = [i \in 1..Len(good) |-> FlightFromDict(good[i])]

\* A manager was constructed over a file whose second line is valid JSON
\* but no object: the well-formed third line is not in the list.
C9_Witness ==
    /\ session = "client"
    /\ Len(cFile.lines) = 3
    /\ LineKind(cFile.lines[2]) = "nonobject"
    /\ WellFormedClient(cFile.lines[3])
    /\ clients = <<ClientFromDict(cFile.lines[1])>>

\* The integer IDs of the records of a list, and the largest member of a
\* non-empty set of integers
ClientIntIds(list) ==
    {list[i].client_id.n : i \in {j \in 1..Len(list) : IsInt(list[j].client_id)}}
AirlineIntIds(list) ==
    {list[i].airline_id.n : i \in {j \in 1..Len(list) : IsInt(list[j].airline_id)}}
SetMax(S) == CHOOSE m \in S : \A x \in S : x <= m

\* C10 as the specification states it: after construction the counter is
\* the largest ID among the loaded records plus 1, and 1 when no record
\* brings an ID.
C10_CounterIsMaxLoadedPlusOne ==
    /\ LET l == load_clients(cFile)
       IN l.next_id = IF ClientIntIds(l.clients) = {} THEN 1
                      ELSE SetMax(ClientIntIds(l.clients)) + 1
    /\ LET l == load_airlines(aFile)
       IN l.next_id = IF AirlineIntIds(l.airlines) = {} THEN 1
                      ELSE SetMax(AirlineIntIds(l.airlines)) + 1

\* C10, amended: after construction the counter is 1 plus the largest of 0
\* and the integer IDs of the loaded records -- so 1 when the file is
\* absent or yields no record, and also when every loaded ID is below 1 --
\* and the first successful add returns exactly that value.
C10_CounterIsMaxLoadedOrZeroPlusOne ==
    /\ LET l == load_clients(cFile)
       IN /\ l.next_id = SetMax(ClientIntIds(l.clients) \cup {0}) + 1
          /\ \A data \in ClientInputs :
                 LET r == add_client(l.clients, l.next_id, cFile, data, OkOutcome)
                 IN r.ret # <<>> => r.ret[1].client_id = IntV(l.next_id)
    /\ LET l == load_airlines(aFile)
       IN /\ l.next_id = SetMax(AirlineIntIds(l.airlines) \cup {0}) + 1
          /\ \A data \in AirlineInputs :
                 LET r == add_airline(l.airlines, l.next_id, aFile, data, OkOutcome)
                 IN r.ret # <<>> => r.ret[1].airline_id = IntV(l.next_id)

\* A manager was constructed over a file whose only integer ID is -1, and
\* the first add to succeed since has returned 1.
C10_Witness ==
    /\ session = "client"
    /\ ClientIntIds(load_clients(cFile).clients) = {-1, 1}
    /\ ClientIntIds(clients) = {-1, 1}
    /\ issued.c = 1

\* C11: a failed add on the ClientManager or the AirlineManager, by
\* validation or by persistence, leaves the counter where it was; on a store
\* that was constructed empty the next successful add returns the number of
\* successful adds so far plus one, whatever failed adds, updates and
\* deletes came between.
C11_FailedAddConsumesNoId ==
    /\ \A data \in ClientInputs, out \in WriteOutcomes(Len(clients) + 1) :
           LET r == AddClientCall(data, out)
           IN /\ r.ret = <<>> => r.next_id = cNext
              /\ (r.ret # <<>> /\ started.c) =>
                     r.ret[1].client_id = IntV(added.c + 1)
    /\ \A data \in AirlineInputs, out \in WriteOutcomes(Len(airlines) + 1) :
           LET r == AddAirlineCall(data, out)
           IN /\ r.ret = <<>> => r.next_id = aNext
              /\ (r.ret # <<>> /\ started.a) =>
                     r.ret[1].airline_id = IntV(added.a + 1)

\* A store constructed empty has seen a successful add, a delete and an add
\* whose save failed (the file holds the torn write); the next successful
\* add returns ID 2.
C11_Witness ==
    /\ session = "client"
    /\ started.c
    /\ added.c = 1
    /\ deleted.c = {1}
    /\ cFile.lines = <<BadJsonLine>>
    /\ \E data \in ClientInputs :
           LET r == AddClientCall(data, OkOutcome)
           IN r.ret # <<>> /\ r.ret[1].client_id = IntV(2)

\* C12 as stated: after any update of a client or an airline the targeted
\* record has the ID and the record-kind tag it had before.
C12_UpdateKeepsIdAndKind ==
    /\ \A key \in ClientKeys(clients), info \in ClientChanges,
          out \in WriteOutcomes(Len(clients)) :
           LET idx == ClientIndex(clients, key)
               r == UpdateClientCall(key, info, out)
           IN idx # 0 =>
                  /\ r.clients[idx].client_id = clients[idx].client_id
                  /\ r.clients[idx].record_type = clients[idx].record_type
    /\ \A key \in AirlineKeys(airlines), info \in AirlineChanges,
          out \in WriteOutcomes(Len(airlines)) :
           LET idx == AirlineIndex(airlines, key)
               r == UpdateAirlineCall(key, info, out)
           IN idx # 0 =>
                  /\ r.airlines[idx].airline_id = airlines[idx].airline_id
                  /\ r.airlines[idx].record_type = airlines[idx].record_type

\* C12: after any update the targeted record has the ID it had before, and
\* a client also the record-kind tag it had before; a successful update
\* applies every other supplied field of the record -- for an airline the
\* supplied record-kind tag among them.
C12_UpdateKeepsIdAndAppliesTheRest ==
    /\ \A key \in ClientKeys(clients), info \in ClientChanges,
          out \in WriteOutcomes(Len(clients)) :
           LET idx == ClientIndex(clients, key)
               r == UpdateClientCall(key, info, out)
           IN idx # 0 =>
                  /\ Len(r.clients) = Len(clients)
                  /\ r.clients[idx].client_id = clients[idx].client_id
                  /\ r.clients[idx].record_type = clients[idx].record_type
                  /\ r.ret # <<>> =>
                         /\ r.ret[1] = r.clients[idx]
                         /\ \A k \in DOMAIN info \ {"client_id", "record_type"} :
                                ClientToDict(r.ret[1])[k] = info[k]
    /\ \A key \in AirlineKeys(airlines), info \in AirlineChanges,
          out \in WriteOutcomes(Len(airlines)) :
           LET idx == AirlineIndex(airlines, key)
               r == UpdateAirlineCall(key, info, out)
           IN idx # 0 =>
                  /\ Len(r.airlines) = Len(airlines)
                  /\ r.airlines[idx].airline_id = airlines[idx].airline_id
                  /\ r.ret # <<>> =>
                         /\ r.ret[1] = r.airlines[idx]
                         /\ \A k \in DOMAIN info \ {"airline_id"} :
                                AirlineToDict(r.ret[1])[k] = info[k]

\* No add succeeded since construction, yet an airline carries the tag
\* "Cargo": an update put it there (the loader admits the tag "Airline"
\* only), and the record kept its ID.
C12_Witness ==
    /\ session = "airline"
    /\ issued.a = 0
    /\ \E i \in 1..Len(airlines) :
           /\ airlines[i].record_type = "Cargo"
           /\ airlines[i].airline_id = IntV(1)

\* The supplied values of the fields of the record's mapping `current`,
\* the keys in `ignored` aside, are the values the record has
NoFieldDiffers(current, info, ignored) ==
    \A k \in (DOMAIN info \cap DOMAIN current) \ ignored : info[k] = current[k]

\* C13 as stated: an update whose changes make no field differ from the
\* current record returns the existing record, leaves list and file as they
\* were and succeeds whatever the save would do -- in all three managers.
C13_UnchangedUpdateIsNoOp ==
    /\ \A key \in ClientKeys(clients), info \in ClientChanges,
          out \in WriteOutcomes(Len(clients)) :
           LET idx == ClientIndex(clients, key)
               r == UpdateClientCall(key, info, out)
           IN (idx # 0 /\ NoFieldDiffers(ClientToDict(clients[idx]), info,
                                         {"client_id", "record_type"})) =>
                  /\ r.ret = <<clients[idx]>>
                  /\ r.clients = clients /\ r.file = cFile
    /\ \A key \in AirlineKeys(airlines), info \in AirlineChanges,
          out \in WriteOutcomes(Len(airlines)) :
           LET idx == AirlineIndex(airlines, key)
               r == UpdateAirlineCall(key, info, out)
           IN (idx # 0 /\ NoFieldDiffers(AirlineToDict(airlines[idx]), info,
                                         {"airline_id"})) =>
                  /\ r.ret = <<airlines[idx]>>
                  /\ r.airlines = airlines /\ r.file = aFile
    /\ \A ident \in FlightIdentifiers(flights) :
           LET idx == find_flight_index(flights, ident)
           IN idx # 0 =>
               \A info \in AllFlightChanges :
                   NoFieldDiffers(FlightToDict(flights[idx]), info, {}) =>
                       \A out \in WriteOutcomes(Len(flights)) :
                           LET r == UpdateFlightCall(ident, info, out)
                           IN /\ r.ret = <<flights[idx]>>
                              /\ r.flights = flights /\ r.file = fFile

\* C13: an update whose supplied values equal the values of the record's
\* mapping form (the ignored keys aside) returns the existing record,
\* leaves list and file as they were and succeeds whatever the save would
\* do -- provided, for a flight, that every supplied key is a key of the
\* mapping: a key of another name makes update_flight go on to the save,
\* and it returns no record when the save fails.
C13_UnchangedUpdateOfKnownKeysIsNoOp ==
    /\ \A key \in ClientKeys(clients), info \in ClientChanges,
          out \in WriteOutcomes(Len(clients)) :
           LET idx == ClientIndex(clients, key)
               r == UpdateClientCall(key, info, out)
           IN (idx # 0 /\ NoFieldDiffers(ClientToDict(clients[idx]), info,
                                         {"client_id", "record_type"})) =>
                  /\ r.ret = <<clients[idx]>>
                  /\ r.clients = clients /\ r.file = cFile
    /\ \A key \in AirlineKeys(airlines), info \in AirlineChanges,
          out \in WriteOutcomes(Len(airlines)) :
           LET idx == AirlineIndex(airlines, key)
               r == UpdateAirlineCall(key, info, out)
           IN (idx # 0 /\ NoFieldDiffers(AirlineToDict(airlines[idx]), info,
                                         {"airline_id"})) =>
                  /\ r.ret = <<airlines[idx]>>
                  /\ r.airlines = airlines /\ r.file = aFile
    /\ \A ident \in FlightIdentifiers(flights) :
           LET idx == find_flight_index(flights, ident)
           IN idx # 0 =>
               \A info \in AllFlightChanges :
                   NoFieldDiffers(FlightToDict(flights[idx]), info, {}) =>
                       \A out \in WriteOutcomes(Len(flights)) :
                           LET r == UpdateFlightCall(ident, info, out)
                           IN IF DOMAIN info \subseteq FlightRequired
                              THEN /\ r.ret = <<flights[idx]>>
                                   /\ r.flights = flights /\ r.file = fFile
                              ELSE /\ r.flights = flights
                                   /\ r.ret = IF out.kind = "ok"
                                              THEN <<flights[idx]>> ELSE <<>>
                                   /\ r.file = WriteFile(fFile,
                                                   SerializeFlights(flights), out)

\* A flight whose file holds the torn line of a failed save is the target
\* of an update that supplies the client reference it already has: the
\* update returns the record although the save would fail, and the file
\* keeps the torn line.
C13_Witness ==
    /\ session = "flight"
    /\ flights # <<>>
    /\ fFile.lines = <<BadJsonLine>>
    /\ \E ident \in FlightIdentifiers(flights), out \in FailedSaves(Len(flights)) :
           LET idx == find_flight_index(flights, ident)
               info == "Client_ID" :> flights[1].client_id
               r == UpdateFlightCall(ident, info, out)
           IN /\ idx = 1
              /\ r.ret = <<flights[1]>>
              /\ r.file = fFile

\* C14: an update or a delete whose key matches no record returns the
\* not-found result (no record / false) and leaves the list, the counter
\* and the file as they were, whatever the changes and whatever a save
\* would have done -- for integer and non-integer keys, in all three
\* managers.
C14_MissingKeyChangesNothing ==
    /\ \A key \in ClientKeys(clients) \cup {IntV(n) : n \in deleted.c} :
           (\A i \in 1..Len(clients) : clients[i].client_id # key) =>
               \A out \in WriteOutcomes(Len(clients)) :
                   /\ \A info \in ClientChanges :
                          LET r == UpdateClientCall(key, info, out)
                          IN /\ r.ret = <<>> /\ r.clients = clients
                             /\ r.next_id = cNext /\ r.file = cFile
                   /\ LET d == DeleteClientCall(key, out)
                      IN /\ ~d.ok /\ d.clients = clients
                         /\ d.next_id = cNext /\ d.file = cFile
    /\ \A key \in AirlineKeys(airlines) \cup {IntV(n) : n \in deleted.a} :
           (\A i \in 1..Len(airlines) : airlines[i].airline_id # key) =>
               \A out \in WriteOutcomes(Len(airlines)) :
                   /\ \A info \in AirlineChanges :
                          LET r == UpdateAirlineCall(key, info, out)
                          IN /\ r.ret = <<>> /\ r.airlines = airlines
                             /\ r.next_id = aNext /\ r.file = aFile
                   /\ LET d == DeleteAirlineCall(key, out)
                      IN /\ ~d.ok /\ d.airlines = airlines
                         /\ d.next_id = aNext /\ d.file = aFile
    /\ \A ident \in FlightIdentifiers(flights) :
           (\A i \in 1..Len(flights) : ~FlightMatches(flights[i], ident)) =>
               \A out \in WriteOutcomes(Len(flights)) :
                   /\ \A info \in AllFlightChanges :
                          LET r == UpdateFlightCall(ident, info, out)
                          IN r.ret = <<>> /\ r.flights = flights /\ r.file = fFile
                   /\ LET d == DeleteFlightCall(ident, out)
                      IN ~d.ok /\ d.flights = flights /\ d.file = fFile

\* A client was deleted and another remains, with ID 1: neither the deleted
\* ID nor the text "1" finds a record, and a delete under either returns
\* false.
C14_Witness ==
    /\ session = "client"
    /\ deleted.c # {}
    /\ ClientIndex(clients, IntV(1)) # 0
    /\ \A key \in {IntV(n) : n \in deleted.c} \cup {StrV(1)} :
           /\ \A i \in 1..Len(clients) : clients[i].client_id # key
           /\ ~DeleteClientCall(key, OkOutcome).ok

\* C15: an update of a record that is found, whose changes empty the
\* client's name or address_line_1, the airline's company_name or kind tag,
\* or give the flight a date that does not parse or an empty city, returns
\* no record and leaves the list, the counter and the file as they were,
\* whatever a save would have done.
C15_InvalidUpdateChangesNothing ==
    /\ \A key \in ClientKeys(clients), info \in ClientChanges :
           ( /\ \E i \in 1..Len(clients) : clients[i].client_id = key
             /\ \E k \in {"name", "address_line_1"} \cap DOMAIN info : info[k] = "" ) =>
               \A out \in WriteOutcomes(Len(clients)) :
                   LET r == UpdateClientCall(key, info, out)
                   IN /\ r.ret = <<>> /\ r.clients = clients
                      /\ r.next_id = cNext /\ r.file = cFile
    /\ \A key \in AirlineKeys(airlines), info \in AirlineChanges :
           ( /\ \E i \in 1..Len(airlines) : airlines[i].airline_id = key
             /\ \E k \in {"company_name", "record_type"} \cap DOMAIN info :
                    info[k] = "" ) =>
               \A out \in WriteOutcomes(Len(airlines)) :
                   LET r == UpdateAirlineCall(key, info, out)
                   IN /\ r.ret = <<>> /\ r.airlines = airlines
                      /\ r.next_id = aNext /\ r.file = aFile
    /\ \A ident \in FlightIdentifiers(flights), info \in AllFlightChanges :
           ( /\ \E i \in 1..Len(flights) : FlightMatches(flights[i], ident)
             /\ \/ "Date" \in DOMAIN info /\ ~Parsable(info["Date"])
                \/ \E k \in {"Start City", "End City"} \cap DOMAIN info :
                       info[k] = "" ) =>
               \A out \in WriteOutcomes(Len(flights)) :
                   LET r == UpdateFlightCall(ident, info, out)
                   IN r.ret = <<>> /\ r.flights = flights /\ r.file = fFile

\* After a failed save left its torn line in the airline file, an update
\* that empties the company name of an airline in the list is refused: the
\* list and the torn file stay as they are.
C15_Witness ==
    /\ session = "airline"
    /\ aFile.lines = <<BadJsonLine>>
    /\ \E key \in AirlineKeys(airlines) :
           LET r == UpdateAirlineCall(key, [company_name |-> ""], OkOutcome)
           IN /\ \E i \in 1..Len(airlines) : airlines[i].airline_id = key
              /\ r.why = "invalid" /\ r.airlines = airlines /\ r.file = aFile

\* C16 as stated: in the ClientManager and in the AirlineManager an add
\* whose data lacks the record-kind tag returns no record, appends nothing
\* and leaves the counter unchanged.
C16_AddWithoutKindIsRefused ==
    /\ \A data \in ClientInputs, out \in WriteOutcomes(Len(clients) + 1) :
           ~Has(data, "record_type") =>
               LET r == AddClientCall(data, out)
               IN r.ret = <<>> /\ r.clients = clients /\ r.next_id = cNext
    /\ \A data \in AirlineInputs, out \in WriteOutcomes(Len(airlines) + 1) :
           ~Has(data, "record_type") =>
               LET r == AddAirlineCall(data, out)
               IN r.ret = <<>> /\ r.airlines = airlines /\ r.next_id = aNext

\* C16: in the AirlineManager an add whose data lacks the record-kind tag
\* returns no record, appends nothing and leaves counter and file
\* unchanged. In the ClientManager the tag is not required: the add sets
\* the tag "Client" whatever the data holds, so data lacking the tag and
\* otherwise valid is added under the next ID when the save completes, as
\* the same data with a tag is.
C16_AirlineAddWithoutKindIsRefused ==
    /\ \A data \in AirlineInputs, out \in WriteOutcomes(Len(airlines) + 1) :
           ~Has(data, "record_type") =>
               LET r == AddAirlineCall(data, out)
               IN /\ r.ret = <<>> /\ r.airlines = airlines
                  /\ r.next_id = aNext /\ r.file = aFile
    /\ \A data \in ClientInputs :
           ( /\ ~Has(data, "record_type")
             /\ ClientRequired \subseteq DOMAIN data
             /\ data["name"] # "" /\ data["address_line_1"] # "" ) =>
               LET r == AddClientCall(data, OkOutcome)
               IN /\ r.ret # <<>>
                  /\ r.ret[1].client_id = IntV(cNext)
                  /\ r.ret[1].record_type = "Client"
                  /\ r.clients = Append(clients, r.ret[1])
                  /\ r.next_id = cNext + 1
                  /\ r = AddClientCall(Put(data, "record_type", "Airline"),
                                       OkOutcome)

\* After a successful add, the ClientManager accepts data without a kind
\* tag under the next ID, and the AirlineManager refuses such data.
C16_Witness ==
    /\ session = "client"
    /\ issued.c > 0
    /\ \E data \in ClientInputs :
           /\ ~Has(data, "record_type")
           /\ AddClientCall(data, OkOutcome).ret # <<>>
           /\ AddClientCall(data, OkOutcome).ret[1].client_id.n = issued.c + 1
    /\ \E data \in AirlineInputs :
           /\ ~Has(data, "record_type")
           /\ AddAirlineCall(data, OkOutcome).why = "no_record_type"

\* The file holds one line per record of the list, in list order, each the
\* mapping the record converts to, and no other line
ClientFileMirrors(file, list) ==
    /\ file.exists
    /\ Len(file.lines) = Len(list)
    /\ \A i \in 1..Len(list) : file.lines[i] = ClientToDict(list[i])
AirlineFileMirrors(file, list) ==
    /\ file.exists
    /\ Len(file.lines) = Len(list)
    /\ \A i \in 1..Len(list) : file.lines[i] = AirlineToDict(list[i])
FlightFileMirrors(file, list) ==
    /\ file.exists
    /\ Len(file.lines) = Len(list)
    /\ \A i \in 1..Len(list) : file.lines[i] = FlightToDict(list[i])

\* C17 as stated: after every update that returns a record, the file
\* consists of exactly one line per record of the list, in list order, each
\* line the mapping form of its record.
C17_FileMirrorsListAfterEveryUpdate ==
    /\ \A key \in ClientKeys(clients), info \in ClientChanges :
           LET r == UpdateClientCall(key, info, OkOutcome)
           IN r.ret # <<>> => ClientFileMirrors(r.file, r.clients)
    /\ \A key \in AirlineKeys(airlines), info \in AirlineChanges :
           LET r == UpdateAirlineCall(key, info, OkOutcome)
           IN r.ret # <<>> => AirlineFileMirrors(r.file, r.airlines)
    /\ \A ident \in FlightIdentifiers(flights), info \in FlightChanges :
           LET r == UpdateFlightCall(ident, info, OkOutcome)
           IN r.ret # <<>> => FlightFileMirrors(r.file, r.flights)

\* C17: after every successful add, every successful delete and every
\* successful update that went through the save (one whose changes differ
\* from the record), in each manager, the file consists of exactly one line
\* per record of the list, in list order, each line the mapping form of its
\* record, whatever the file held before; an update that changes nothing
\* returns the record and leaves the file as it was.
C17_FileMirrorsListAfterSuccess ==
    /\ \A data \in ClientInputs :
           LET r == AddClientCall(data, OkOutcome)
           IN r.ret # <<>> => ClientFileMirrors(r.file, r.clients)
    /\ \A key \in ClientKeys(clients), info \in ClientChanges :
           LET r == UpdateClientCall(key, info, OkOutcome)
           IN r.why = "saved" => ClientFileMirrors(r.file, r.clients)
    /\ \A key \in ClientKeys(clients) :
           LET r == DeleteClientCall(key, OkOutcome)
           IN r.ok => ClientFileMirrors(r.file, r.clients)
    /\ \A data \in AirlineInputs :
           LET r == AddAirlineCall(data, OkOutcome)
           IN r.ret # <<>> => AirlineFileMirrors(r.file, r.airlines)
    /\ \A key \in AirlineKeys(airlines), info \in AirlineChanges :
           LET r == UpdateAirlineCall(key, info, OkOutcome)
           IN r.why = "saved" => AirlineFileMirrors(r.file, r.airlines)
    /\ \A key \in AirlineKeys(airlines) :
           LET r == DeleteAirlineCall(key, OkOutcome)
           IN r.ok => AirlineFileMirrors(r.file, r.airlines)
    /\ \A data \in FlightInputs :
           LET r == AddFlightCall(data, OkOutcome)
           IN r.ret # <<>> => FlightFileMirrors(r.file, r.flights)
    /\ \A ident \in FlightIdentifiers(flights), info \in FlightChanges :
           LET r == UpdateFlightCall(ident, info, OkOutcome)
           IN r.why = "saved" => FlightFileMirrors(r.file, r.flights)
    /\ \A ident \in FlightIdentifiers(flights) :
           LET r == DeleteFlightCall(ident, OkOutcome)
           IN r.ok => FlightFileMirrors(r.file, r.flights)
    /\ \A key \in ClientKeys(clients), info \in ClientChanges :
           LET r == UpdateClientCall(key, info, OkOutcome)
           IN (r.ret # <<>> /\ r.why # "saved") => r.file = cFile

\* The client file holds the torn line of a failed save while the list has
\* two records; a delete that succeeds leaves a file of exactly one line,
\* the mapping of the record that remains.
C17_Witness ==
    /\ session = "client"
    /\ Len(clients) = 2
    /\ cFile.lines = <<BadJsonLine>>
    /\ \E key \in ClientKeys(clients) :
           LET r == DeleteClientCall(key, OkOutcome)
           IN /\ r.ok
              /\ r.file.lines = <<ClientToDict(r.clients[1])>>

\* Flight data whose kind tag is not "Flight", and a change to such a tag
OtherKindFlight ==
    [FlightData(IntV(1), IntV(1), "2025-01-01T10:00:00", "L", "P")
        EXCEPT !["record_type"] = "Charter"]
OtherKindChange == "record_type" :> "Charter"

\* C18 as stated: after a successful mutation, a manager constructed over
\* the file the mutation wrote holds the list the live manager holds -- for
\* each manager and every record the live manager accepted.
C18_ReloadEqualsLive ==
    /\ \A data \in ClientInputs :
           LET r == AddClientCall(data, OkOutcome)
           IN r.ret # <<>> => load_clients(r.file).clients = r.clients
    /\ \A key \in ClientKeys(clients), info \in ClientChanges :
           LET r == UpdateClientCall(key, info, OkOutcome)
           IN r.why = "saved" => load_clients(r.file).clients = r.clients
    /\ \A key \in ClientKeys(clients) :
           LET r == DeleteClientCall(key, OkOutcome)
           IN r.ok => load_clients(r.file).clients = r.clients
    /\ \A data \in AirlineInputs :
           LET r == AddAirlineCall(data, OkOutcome)
           IN r.ret # <<>> => load_airlines(r.file).airlines = r.airlines
    /\ \A key \in AirlineKeys(airlines), info \in AirlineChanges :
           LET r == UpdateAirlineCall(key, info, OkOutcome)
           IN r.why = "saved" => load_airlines(r.file).airlines = r.airlines
    /\ \A key \in AirlineKeys(airlines) :
           LET r == DeleteAirlineCall(key, OkOutcome)
           IN r.ok => load_airlines(r.file).airlines = r.airlines
    /\ \A data \in FlightInputs \cup {OtherKindFlight} :
           LET r == AddFlightCall(data, OkOutcome)
           IN r.ret # <<>> => load_flights(r.file) = r.flights
    /\ \A ident \in FlightIdentifiers(flights),
          info \in FlightChanges \cup {OtherKindChange} :
           LET r == UpdateFlightCall(ident, info, OkOutcome)
           IN r.why = "saved" => load_flights(r.file) = r.flights
    /\ \A ident \in FlightIdentifiers(flights) :
           LET r == DeleteFlightCall(ident, OkOutcome)
           IN r.ok => load_flights(r.file) = r.flights

\* The airline file mirrors a list that holds an airline tagged "Cargo",
\* the record the last successful add returned, and a manager constructed
\* over that file does not hold the list.
C18_Witness ==
    /\ session = "airline"
    /\ AirlineFileMirrors(aFile, airlines)
    /\ \E i \in 1..Len(airlines) :
           /\ airlines[i].record_type = "Cargo"
           /\ airlines[i].airline_id = IntV(issued.a)
    /\ load_airlines(aFile).airlines # airlines

\* C19: for the record a successful add returns, on each manager, the
\* mapping the record converts to is accepted by from_dict, and converting
\* the record built from it gives the same mapping again.
C19_ToDictRoundTrips ==
    /\ \A data \in ClientInputs :
           LET r == AddClientCall(data, OkOutcome)
               m == ClientToDict(r.ret[1])
           IN r.ret # <<>> =>
                  ClientValid(m) /\ ClientToDict(ClientFromDict(m)) = m
    /\ \A data \in AirlineInputs :
           LET r == AddAirlineCall(data, OkOutcome)
               m == AirlineToDict(r.ret[1])
           IN r.ret # <<>> =>
                  AirlineValid(m) /\ AirlineToDict(AirlineFromDict(m)) = m
    /\ \A data \in FlightInputs \cup {OtherKindFlight} :
           LET r == AddFlightCall(data, OkOutcome)
               m == FlightToDict(r.ret[1])
           IN r.ret # <<>> =>
                  FlightValid(m) /\ FlightToDict(FlightFromDict(m)) = m

\* The save of an add to the empty flight list failed and left its torn
\* line; the add is made again and returns a record whose date has an hour
\* other than midnight, whose mapping converts back to a record with the
\* same mapping.
C19_Witness ==
    /\ session = "flight"
    /\ flights = <<>>
    /\ fFile.lines = <<BadJsonLine>>
    /\ \E data \in FlightInputs :
           LET r == AddFlightCall(data, OkOutcome)
               m == FlightToDict(r.ret[1])
           IN /\ r.ret # <<>>
              /\ r.ret[1].flight_date.hour # 0
              /\ m["Date"] = data["Date"]
              /\ FlightToDict(FlightFromDict(m)) = m

\* The criterion matches the record as C20 states it: the key is a field
\* of the record; a text field matches a search text it contains, case
\* aside; a field that is no text matches a search value that converts to
\* the field's type and then equals it (nothing converts to None's type).
StatedCriterionMatches(rec, key, search_value) ==
    /\ key \in DOMAIN rec
    /\ IF key = "client_id"
       THEN /\ rec.client_id.kind = "int"
            /\ IntCoercible(search_value)
            /\ rec.client_id.n = IntOf(search_value)
       ELSE /\ search_value.kind = "text"
            /\ Contains(Lower(Chars(rec[key])), Lower(Chars(search_value.s)))

\* C20 as stated: find_clients returns, in list order, exactly the records
\* that every criterion matches, and all records for empty criteria.
C20_FindReturnsStatedMatches ==
    \A criteria \in FindCriteria :
        find_clients(clients, criteria) =
            SelectSeq(clients, LAMBDA rec :
                \A key \in DOMAIN criteria :
                    StatedCriterionMatches(rec, key, criteria[key]))

\* After an add, the list is not empty, and the criterion that names the
\* class attribute __module__, which no record has as a field, returns
\* every record.
C20_Witness ==
    /\ session = "client"
    /\ issued.c > 0
    /\ clients # <<>>
    /\ find_clients(clients, [__module__ |-> TextV("record")]) = clients

\* The text criterion on the date field matches the flight as C21 states
\* it: it parses, and gives the flight's date and time if it is longer than
\* 10 characters, the flight's day otherwise.
StatedDateMatches(flight, text) ==
    /\ Parsable(text)
    /\ IF TextLen(text) > 10
       THEN FromIsoFormat(text) = flight.flight_date
       ELSE FromIsoFormat(text).day = flight.flight_date.day

\* C21 as stated: find_flights with a text criterion on the date field
\* returns the flights whose date and time the criterion parses to when it
\* is longer than 10 characters, those on the day it parses to when it is
\* not, and none when it does not parse.
C21_FindMatchesDatesAsStated ==
    \A criteria \in FlightFindCriteria :
        DOMAIN criteria = {"Date"} =>
            find_flights(flights, criteria) =
                SelectSeq(flights, LAMBDA flight :
                    StatedDateMatches(flight, criteria["Date"].s))

\* The flight list holds the same flight twice, as adding it twice leaves
\* it, both on 2025-01-01 at 10:00; the criterion {"Date": "2025-01-01"}
\* finds neither, the full timestamp finds both.
C21_Witness ==
    /\ session = "flight"
    /\ Len(flights) = 2
    /\ flights[1] = flights[2]
    /\ flights[1].flight_date = [day |-> 1, hour |-> 10]
    /\ find_flights(flights, "Date" :> TextV("2025-01-01")) = <<>>
    /\ find_flights(flights, "Date" :> TextV("2025-01-01T10:00:00")) = flights

NaturalKey == {"Client_ID", "Airline_ID", "Date", "Start City", "End City"}

\* The identifier gives all five natural-key fields with the values of flight
SameNaturalKey(flight, ident) ==
    /\ NaturalKey \subseteq DOMAIN ident
    /\ \A key \in NaturalKey : ident[key] = FlightToDict(flight)[key]

\* C24: update_flight and delete_flight locate their target by equality on
\* all five natural-key fields of the external mapping. An identifier that
\* omits one of the five keys, or differs from every stored flight in at
\* least one of them, is not found: the call returns nothing / False and
\* the list and the file stay as they were. An identifier that agrees with
\* a stored flight on the five fields locates it whatever kind tag it
\* carries, or with none.
C24_TargetIsLocatedByTheFiveKeyFields ==
    \A ident \in FlightIdentifierVariants(flights) \cup FlightIdentifiers(flights) :
        IF \E i \in 1..Len(flights) : SameNaturalKey(flights[i], ident)
        THEN /\ DeleteFlightCall(ident, OkOutcome).ok
             /\ UpdateFlightCall(ident, "End City" :> "P", OkOutcome).ret # <<>>
        ELSE /\ \A out \in WriteOutcomes(Len(flights)) :
                   LET r == DeleteFlightCall(ident, out)
                   IN ~r.ok /\ r.flights = flights /\ r.file = fFile
             /\ \A data \in {"Date" :> "2025-01-02T10:00:00", "End City" :> "P",
                              "Client_ID" :> IntV(2)} :
                   LET r == UpdateFlightCall(ident, data, OkOutcome)
                   IN r.ret = <<>> /\ r.flights = flights /\ r.file = fFile

\* Two flights were added that differ in the date alone: the identifier of
\* the first without its date locates nothing, and with another kind tag it
\* still locates the first
C24_Witness ==
    /\ session = "flight"
    /\ Len(flights) = 2
    /\ fFile = FileOf(SerializeFlights(flights))
    /\ flights[1].flight_date # flights[2].flight_date
    /\ [flights[1] EXCEPT !.flight_date = flights[2].flight_date] = flights[2]
    /\ LET d == FlightToDict(flights[1])
       IN /\ ~DeleteFlightCall(Restrict(d, DOMAIN d \ {"Date"}), OkOutcome).ok
          /\ DeleteFlightCall(Put(d, "record_type", "Charter"), OkOutcome).flights
                 = <<flights[2]>>

C26_EveryFlightIsAddressable ==
    LET all == get_all_flights(flights).items
    IN \A n \in 1..Len(all) :
         LET ident == FlightToDict(all[n])
             idx == find_flight_index(flights, ident)
             d == DeleteFlightCall(ident, OkOutcome)
         IN /\ idx \in 1..n
            /\ SameNaturalKey(flights[idx], ident)
            /\ d.ok
            /\ d.flights = SubSeq(flights, 1, idx - 1)
                               \o SubSeq(flights, idx + 1, Len(flights))
            /\ \A data \in FlightChanges :
                 LET u == UpdateFlightCall(ident, data, OkOutcome)
                 IN /\ u.why # "not_found"
                    /\ (u.why = "saved" /\ ~SameNaturalKey(u.ret[1], ident)) =>
                         LET now == FlightToDict(u.ret[1])
                         IN /\ u.flights[idx] = u.ret[1]
                            /\ find_flight_index(u.flights, now) \in 1..idx
                            /\ delete_flight(u.flights, u.file, now, OkOutcome).ok
                            /\ find_flight_index(u.flights, ident) # idx

\* A flight's date was updated to 2 January: its own mapping locates it and
\* the mapping with the date it had before does not
C26_Witness ==
    /\ session = "flight"
    /\ fFile = FileOf(SerializeFlights(flights))
    /\ \E n \in 1..Len(flights) :
         LET now == FlightToDict(flights[n])
         IN /\ flights[n].flight_date = [day |-> 2, hour |-> 10]
            /\ find_flight_index(flights, now) = n
            /\ find_flight_index(flights, Put(now, "Date", "2025-01-01T10:00:00")) = 0

\* Position of the earliest flight with the identifier's natural key
Earliest(list, ident) ==
    CHOOSE i \in 1..Len(list) :
        /\ SameNaturalKey(list[i], ident)
        /\ \A j \in 1..(i - 1) : ~SameNaturalKey(list[j], ident)

CounterExceedsIds(next_id, ids) == next_id >= 1 /\ \A id \in ids : next_id > id

\* C28: in every state of a ClientManager or an AirlineManager between
\* two public operations (after the load, after any successful or failed
\* add, update or delete) the next-ID counter is at least 1 and strictly
\* greater than the ID of every record of the list. A record loaded
\* without an ID (null) has no ID to compare. The same holds after the
\* adds whose save fails part-way through the file.
C28_CounterExceedsEveryId ==
    /\ CounterExceedsIds(cNext, ClientIntIds(clients))
    /\ CounterExceedsIds(aNext, AirlineIntIds(airlines))
    /\ session = "client" =>
         \A data \in ClientInputs, out \in WriteOutcomes(Len(clients) + 1) :
             LET r == AddClientCall(data, out)
             IN CounterExceedsIds(r.next_id, ClientIntIds(r.clients))
    /\ session = "airline" =>
         \A data \in AirlineInputs, out \in WriteOutcomes(Len(airlines) + 1) :
             LET r == AddAirlineCall(data, out)
             IN CounterExceedsIds(r.next_id, AirlineIntIds(r.airlines))

\* A client was added to the list loaded from the file of records without
\* a positive ID, and a later save failed on the file
C28_Witness ==
    /\ session = "client"
    /\ Len(clients) >= 2
    /\ clients[1].client_id = IntV(-1)
    /\ issued.c = 1
    /\ \E i \in 1..Len(clients) : clients[i].client_id = IntV(1)
    /\ cNext = 2
    /\ cFile # FileOf(SerializeClients(clients))

\* The lines of the file at positions where it holds something other than
\* a record of the list are still there, in place, in the file afterwards
SkippedLinesStay(file, after, mappings) ==
    \A i \in 1..Len(file.lines) :
        file.lines[i] \notin mappings =>
            i <= Len(after.lines) /\ after.lines[i] = file.lines[i]

\* The file holds nothing but records of the list
OnlyRecordsOf(file, mappings) ==
    \A i \in 1..Len(file.lines) : file.lines[i] \in mappings

\* One step of a manager on its file, as C29 states it: a step that changed
\* the list rewrote the whole file, which then mirrors the list; any other
\* step either rewrote the file to mirror the list (an update that saved
\* without changing the record) or, as a failed or no-op operation, left
\* every skipped line in place, and a file that held only records of the
\* list still holds only records of the list.
StepKeepsOrRewrites(file, after, mirrors, changed, mappings) ==
    IF changed THEN mirrors
    ELSE \/ mirrors
         \/ /\ SkippedLinesStay(file, after, mappings)
            /\ OnlyRecordsOf(file, mappings) => OnlyRecordsOf(after, mappings)

\* C29 as stated: the lines skipped at load stay in the backing file until
\* the first successful mutation, whose whole-file rewrite removes them for
\* good, the file holding only records of the list from then on; failed
\* and no-op operations before it leave those lines in place.
C29_SkippedLinesStayUntilFirstRewrite ==
    [][ ~Construct =>
          /\ session = "client" =>
                StepKeepsOrRewrites(cFile, cFile', ClientFileMirrors(cFile', clients'),
                    clients' # clients,
                    {ClientToDict(clients[i]) : i \in 1..Len(clients)})
          /\ session = "airline" =>
                StepKeepsOrRewrites(aFile, aFile', AirlineFileMirrors(aFile', airlines'),
                    airlines' # airlines,
                    {AirlineToDict(airlines[i]) : i \in 1..Len(airlines)})
          /\ session = "flight" =>
                StepKeepsOrRewrites(fFile, fFile', FlightFileMirrors(fFile', flights'),
                    flights' # flights,
                    {FlightToDict(flights[i]) : i \in 1..Len(flights)}) ]_vars

\* The client list is as it was loaded from the file with skipped lines
\* around client 2, no add or delete has succeeded, and the file holds the
\* torn start of one line: the skipped lines are gone
C29_Witness ==
    /\ session = "client"
    /\ clients = load_clients(ClientFiles[4]).clients
    /\ cNext = load_clients(ClientFiles[4]).next_id
    /\ issued.c = 0
    /\ deleted.c = {}
    /\ cFile = FileOf(<<BadJsonLine>>)

\* C30 as stated: IDs are stable across restarts. Once a client was
\* deleted, no later add returns its ID, also after the managers were
\* constructed again from their files, so a flight left dangling by the
\* deletion never comes to resolve to a newly added client: for every
\* stored flight whose client reference names no client, no add_client
\* returns a record with that ID.
C30_DeletedIdIsNeverReissued ==
    session = "flight" =>
        \A n \in 1..Len(flights) :
            get_client_by_id(clients, flights[n].client_id) = 0 =>
                \A data \in ClientInputs :
                    LET r == AddClientCall(data, OkOutcome)
                    IN r.ret # <<>> => r.ret[1].client_id # flights[n].client_id

\* Client 2 was deleted and the managers were constructed again: a flight
\* still names client 2, the counter is back at 2, and the client that
\* add_client creates is what the flight's reference resolves to
C30_Witness ==
    /\ session = "flight"
    /\ Len(clients) = 1
    /\ clients[1].client_id = IntV(1)
    /\ cNext = 2
    /\ \E n \in 1..Len(flights) :
         /\ flights[n].client_id = IntV(2)
         /\ get_client_by_id(clients, flights[n].client_id) = 0
         /\ \E data \in ClientInputs :
              LET r == AddClientCall(data, OkOutcome)
              IN /\ r.ret # <<>>
                 /\ get_client_by_id(r.clients, flights[n].client_id) = 2
                 /\ r.clients[2] = r.ret[1]

====
